---- MODULE Spec2Model ----
(***************************************************************************)
(* Print Skew Compensation: the Skew Model (SkewCalculator.py), the        *)
(* geometric factor and the Coordinate Compensator                         *)
(* (scripts/PrintSkewCompensationCKM.py).                                  *)
(*                                                                         *)
(* Number model.  A Python float is a record [k, n, d, e]:                 *)
(*   k = "fin"  the finite value n/d (d > 0, lowest terms) plus e times a  *)
(*              rounding residue: e \in {-1, 0, 1} is the sign of the      *)
(*              error left by one rounding of an irrational square root    *)
(*              (about 1e-16 relative); e = 0 is an exact value;           *)
(*   k = "big"  a finite value of sign n whose square exceeds the largest  *)
(*              double (1e200, say);                                       *)
(*   k = "inf"  the infinity of sign n;      k = "nan"  not-a-number;      *)
(*   k = "cot"  tan(pi/2 - acos(a)) for the argument a of sign Sgn(n) and  *)
(*              square |n|/d, 0 < a*a <= 1, plus residue e.                *)
(* The other Python objects a measurement can hold are k = "none" (None)   *)
(* and k = "text" (a string float() cannot parse).  +, -, * and / are      *)
(* exact on "fin" values; math.sqrt is the one operation whose rounding is *)
(* modelled, as a choice over the residues the build can produce.          *)
(***************************************************************************)
EXTENDS Integers, Sequences, FiniteSets, TLC

VARIABLES
    calculator,   \* the SkewCalculator object: nine measurements, three factors
    raised,       \* the exception that escaped the last SkewCalculator call
    g_in,         \* calculate_skew_factor: the arguments <<ac, bd, ad>>
    g_geo,        \* calculate_skew_factor: [val, log] returned (log "pending": not yet)
    g_quarter,    \* the quarter-formula block on the same arguments: [val, exc]
    c_pc,         \* cura_compensation: "idle", "running" (inside the loops), "done"
    c_factors,    \* self._calculated_factors: [xy, xz, yz]
    layer_index,  \* cura_compensation: the index of the layer being processed
    z_input,      \* cura_compensation: the tracked Z
    c_line,       \* cura_compensation: the line the inner loop last processed
    x_out,        \* cura_compensation: the corrected X last computed
    y_out,        \* cura_compensation: the corrected Y last computed
    c_out,        \* cura_compensation: lines[index] after the iteration
    line_layer,   \* history: the layer in which c_line was processed (-1: none yet)
    seen_x,       \* history: the X token of the last move line that had one (or None)
    seen_y,       \* history: the Y token of the last move line that had one (or None)
    z_layer,      \* history: the layer in which z_input was last assigned (-1: none)
    last_cmd,     \* the string the last command getter returned: [kind, text, calls]
    start_gcode,  \* machine_start_gcode of the active machine, as its lines
    synced,       \* history: the arguments of the sync_start_gcode call just completed
    script,       \* the PrintSkewCompensationCKM instance: its fields
    config,       \* the plugin's settings of the active printer, and the script setting
    exec,         \* execute: the document and the message of the last call
    controller,   \* the PluginController object: its settings fields and its dialog
    settings_file,\* the printer's .cfg file as the controller wrote it
    post_processing, \* Cura's PostProcessingPlugin: scriptList and loadedScriptList
    handled       \* history: the handler just run and its _ensure_pp_script_state calls

calcVars == <<calculator, raised>>
geoVars == <<g_in, g_geo, g_quarter>>
compVars == <<c_pc, c_factors, layer_index, z_input, c_line, x_out, y_out, c_out,
          line_layer, seen_x, seen_y, z_layer>>
cmdVars == <<last_cmd, start_gcode, synced>>
execVars == <<script, config, exec>>
ctlVars == <<controller, settings_file, post_processing, handled>>
vars == <<calculator, raised, g_in, g_geo, g_quarter,
          c_pc, c_factors, layer_index, z_input, c_line, x_out, y_out, c_out,
          line_layer, seen_x, seen_y, z_layer, last_cmd, start_gcode, synced,
          script, config, exec,
          controller, settings_file, post_processing, handled>>

---------------------------------------------------------------------------
(* Integers and fractions *)

Abs(i) == IF i < 0 THEN -i ELSE i

Sgn(i) == IF i < 0 THEN -1 ELSE IF i > 0 THEN 1 ELSE 0

RECURSIVE Gcd(_, _)
Gcd(a, b) == IF b = 0 THEN a ELSE Gcd(b, a % b)

RECURSIVE RootBetween(_, _, _)
\* the largest k in lo..hi with k*k <= n (bisection)
RootBetween(n, lo, hi) ==
    IF lo >= hi THEN lo
    ELSE LET mid == (lo + hi + 1) \div 2
         IN  IF mid * mid <= n THEN RootBetween(n, mid, hi)
             ELSE RootBetween(n, lo, mid - 1)

\* 46340 = floor(sqrt(2^31 - 1)) keeps mid*mid inside 32-bit integers
IsSquare(n) ==
    LET top == IF n < 46340 THEN n ELSE 46340
        k == RootBetween(n, 0, top)
    IN  k * k = n

\* the float n/d in lowest terms with a positive denominator, residue e
FinE(n, d, e) ==
    LET g == Gcd(Abs(n), Abs(d))
        s == IF d < 0 THEN -1 ELSE 1
    IN  [k |-> "fin", n |-> s * (n \div g), d |-> s * (d \div g), e |-> e]

Fin(n, d) == FinE(n, d, 0)

Zero == Fin(0, 1)
NaN == [k |-> "nan", n |-> 0, d |-> 1, e |-> 0]
Inf(s) == [k |-> "inf", n |-> s, d |-> 1, e |-> 0]
Big(s) == [k |-> "big", n |-> s, d |-> 1, e |-> 0]
PyNone == [k |-> "none", n |-> 0, d |-> 1, e |-> 0]
PyText == [k |-> "text", n |-> 0, d |-> 1, e |-> 0]

IsFloat(x) == x.k \in {"fin", "big", "inf", "nan", "cot"}

\* x <= 0 and x < 0 on floats: every comparison with NaN is false
FLe0(x) == x.k \in {"fin", "big", "inf"} /\ x.n <= 0 /\ ~(x.k = "fin" /\ x.n = 0 /\ x.e > 0)
FLt0(x) == x.k \in {"fin", "big", "inf"} /\ (x.n < 0 \/ (x.k = "fin" /\ x.n = 0 /\ x.e < 0))
FIsZero(x) == x.k = "fin" /\ x.n = 0 /\ x.e = 0

FNeg(x) == [x EXCEPT !.n = IF x.k = "nan" THEN 0 ELSE -x.n, !.e = -x.e]

\* x * y on floats: never raises, an overflow gives an infinity.  A "big"
\* operand only ever meets the literals 2 and 4 or another "big" operand.
FMul(x, y) ==
    IF x.k = "nan" \/ y.k = "nan" THEN NaN
    ELSE IF x.k = "inf" \/ y.k = "inf"
         THEN IF FIsZero(x) \/ FIsZero(y) THEN NaN ELSE Inf(Sgn(x.n) * Sgn(y.n))
    ELSE IF x.k = "big" /\ y.k = "big" THEN Inf(x.n * y.n)
    ELSE IF x.k = "big" \/ y.k = "big"
         THEN IF FIsZero(x) \/ FIsZero(y) THEN Zero ELSE Big(Sgn(x.n) * Sgn(y.n))
    ELSE LET g1 == Gcd(Abs(x.n), y.d)
             g2 == Gcd(Abs(y.n), x.d)
         IN  FinE((x.n \div g1) * (y.n \div g2), (x.d \div g2) * (y.d \div g1),
                  Sgn(x.e * Sgn(y.n) + y.e * Sgn(x.n)))

\* x + y on floats
FAdd(x, y) ==
    IF x.k = "nan" \/ y.k = "nan" THEN NaN
    ELSE IF x.k = "inf" /\ y.k = "inf" THEN (IF x.n = y.n THEN x ELSE NaN)
    ELSE IF x.k = "inf" THEN x
    ELSE IF y.k = "inf" THEN y
    ELSE IF x.k = "big" /\ y.k = "big" THEN (IF x.n = y.n THEN x ELSE Zero)
    ELSE IF x.k = "big" THEN x
    ELSE IF y.k = "big" THEN y
    ELSE LET g == Gcd(x.d, y.d)
             l == (x.d \div g) * y.d
         IN  FinE(x.n * (l \div x.d) + y.n * (l \div y.d), l, Sgn(x.e + y.e))

FSub(x, y) == FAdd(x, FNeg(y))

\* x / y on floats for y # 0 (y = 0 raises ZeroDivisionError, see the callers);
\* no caller divides by a "big" value
FDiv(x, y) ==
    IF x.k = "nan" \/ y.k = "nan" THEN NaN
    ELSE IF y.k = "inf" THEN (IF x.k = "inf" THEN NaN ELSE Zero)
    ELSE IF x.k = "inf" THEN Inf(x.n * Sgn(y.n))
    ELSE FMul(x, FinE(y.d * Sgn(y.n), Abs(y.n), 0))

\* x ** 2 on floats raises OverflowError where x * x would give an infinity
PowOverflows(x) == x.k = "big"
FPow2(x) == FMul(x, x)

---------------------------------------------------------------------------
(* SkewCalculator *)

\* float(v): TypeError for None, ValueError for unparsable text
FloatRaises(v) == v.k \in {"none", "text"}

Four == Fin(4, 1)

\* the block with the half formula of _calculate_skew_factor: 2 * AD**2
quarter_block_half(ac, bd, ad) ==
    IF FloatRaises(ac) \/ FloatRaises(bd) \/ FloatRaises(ad)
    THEN [val |-> Zero, exc |-> "none"]
    ELSE IF FLe0(ad)
    THEN [val |-> Zero, exc |-> "none"]
    ELSE IF PowOverflows(ac) \/ PowOverflows(bd) \/ PowOverflows(ad)
    THEN [val |-> Zero, exc |-> "OverflowError"]
    ELSE [val |-> FDiv(FSub(FPow2(ac), FPow2(bd)), FMul(Fin(2, 1), FPow2(ad))),
          exc |-> "none"]

\* one try block of calculate_skew_factors: [val, exc].  exc = "none" when the
\* block completes (the factor is val, 0.0 on a caught exception); otherwise
\* the exception the except clause does not list, which leaves the factor
\* unassigned and ends calculate_skew_factors.
quarter_block(ac, bd, ad) ==
    IF FloatRaises(ac) \/ FloatRaises(bd) \/ FloatRaises(ad)
    THEN [val |-> Zero, exc |-> "none"]
    ELSE IF FLe0(ad)
    THEN [val |-> Zero, exc |-> "none"]
    ELSE IF PowOverflows(ac) \/ PowOverflows(bd) \/ PowOverflows(ad)
    THEN [val |-> Zero, exc |-> "OverflowError"]
    ELSE LET num == FSub(FPow2(ac), FPow2(bd))
             den == FMul(Four, FPow2(ad))
         IN  IF FIsZero(den)
             THEN [val |-> Zero, exc |-> "none"]
             ELSE [val |-> FDiv(num, den), exc |-> "none"]

\* calculate_skew_factors on the object c: [obj, exc]
calculate_skew_factors(c) ==
    LET bI == quarter_block(c.xy_ac, c.xy_bd, c.xy_ad)
        bJ == quarter_block(c.xz_ac, c.xz_bd, c.xz_ad)
        bK == quarter_block(c.yz_ac, c.yz_bd, c.yz_ad)
        c1 == [c EXCEPT !.marlin_I = bI.val]
        c2 == [c1 EXCEPT !.marlin_J = bJ.val]
        c3 == [c2 EXCEPT !.marlin_K = bK.val]
    IN  IF bI.exc # "none" THEN [obj |-> c, exc |-> bI.exc]
        ELSE IF bJ.exc # "none" THEN [obj |-> c1, exc |-> bJ.exc]
        ELSE IF bK.exc # "none" THEN [obj |-> c2, exc |-> bK.exc]
        ELSE [obj |-> c3, exc |-> "none"]

Default_ac == Fin(14142, 100)
Default_ad == Fin(100, 1)

\* SkewCalculator.__init__
NewCalculator ==
    calculate_skew_factors(
        [xy_ac |-> Default_ac, xy_bd |-> Default_ac, xy_ad |-> Default_ad,
         xz_ac |-> Default_ac, xz_bd |-> Default_ac, xz_ad |-> Default_ad,
         yz_ac |-> Default_ac, yz_bd |-> Default_ac, yz_ad |-> Default_ad,
         marlin_I |-> Zero, marlin_J |-> Zero, marlin_K |-> Zero])

\* set_measurements on the object c: [obj, exc]
set_measurements(c, xy, xz, yz) ==
    calculate_skew_factors(
        [c EXCEPT !.xy_ac = xy[1], !.xy_bd = xy[2], !.xy_ad = xy[3],
                  !.xz_ac = xz[1], !.xz_bd = xz[2], !.xz_ad = xz[3],
                  !.yz_ac = yz[1], !.yz_bd = yz[2], !.yz_ad = yz[3]])

\* get_skew_factors
get_skew_factors(c) == <<c.marlin_I, c.marlin_J, c.marlin_K>>

\* the measurements a caller passes to set_measurements, per plane: a valid
\* triple (a different one for each plane), a side ad <= 0, and the values
\* float() or ** raise on or carry through
XYInputs ==
    { <<Fin(150, 1), Fin(130, 1), Fin(100, 1)>>,
      <<Fin(150, 1), Fin(130, 1), Zero>>,
      <<NaN, Fin(130, 1), Fin(100, 1)>>,
      <<Big(1), Fin(130, 1), Fin(100, 1)>>,
      <<PyText, Fin(130, 1), Fin(100, 1)>> }

XZInputs ==
    { <<Fin(130, 1), Fin(150, 1), Fin(100, 1)>>,
      <<Fin(130, 1), Fin(150, 1), Fin(-100, 1)>>,
      <<Fin(130, 1), Inf(1), Fin(100, 1)>>,
      <<Fin(130, 1), Big(1), Fin(100, 1)>>,
      <<Fin(130, 1), Fin(150, 1), NaN>> }

YZInputs ==
    { <<Fin(150, 1), Fin(130, 1), Fin(50, 1)>>,
      <<Fin(150, 1), Fin(150, 1), Fin(50, 1)>>,
      <<Fin(150, 1), Fin(130, 1), Zero>>,
      <<Fin(150, 1), Fin(130, 1), PyNone>>,
      <<Fin(150, 1), Fin(130, 1), Inf(1)>> }

\* a comment line: not a move, no axis token
CommentLine ==
    [cmd |-> ";", X |-> PyNone, Y |-> PyNone, Z |-> PyNone,
     Xf |-> "none", Yf |-> "none", rest |-> "comment"]

\* the other components, not in use
GeoUnused ==
    /\ g_in = <<Zero, Zero, Zero>>
    /\ g_geo = [val |-> Zero, log |-> "pending"]
    /\ g_quarter = [val |-> Zero, exc |-> "pending"]

CompUnused ==
    /\ c_pc = "idle"
    /\ c_factors = [xy |-> Zero, xz |-> Zero, yz |-> Zero]
    /\ layer_index = 0
    /\ z_input = Zero
    /\ c_line = CommentLine
    /\ x_out = Zero
    /\ y_out = Zero
    /\ c_out = CommentLine
    /\ line_layer = -1
    /\ seen_x = PyNone
    /\ seen_y = PyNone
    /\ z_layer = -1

\* no command read yet, an empty start G-code, no sync call made
NoCommand == [kind |-> "none", text |-> <<>>, calls |-> 0]
NotSynced ==
    [method |-> "unset", marlin_add |-> FALSE, klipper_add |-> FALSE,
     host |-> "none", wrote |-> FALSE]

\* PrintSkewCompensationCKM.__init__: the fields execute reads and writes
NewScript ==
    [plugin_enabled |-> "None", found_in_configuration |-> FALSE,
     factors |-> [xy |-> Zero, xz |-> Zero, yz |-> Zero],
     settings_source |-> "None"]

DefaultTriple == <<Default_ac, Default_ac, Default_ad>>

\* _get_default_settings, which is what a printer without a settings file
\* has, and the script's own setting enable_print_skew_comp (default True)
DefaultSettings ==
    [compensation_enabled |-> FALSE, xy |-> DefaultTriple, xz |-> DefaultTriple,
     yz |-> DefaultTriple, enable_print_skew_comp |-> TRUE]

\* execute not called yet
NoExec == [input |-> <<>>, data |-> <<>>, msg |-> "none", called |-> FALSE]

PostProcessingScriptName == "PrintSkewCompensationCKM"

\* the controller after __init__ on a printer without a settings file: the
\* defaults of _get_default_settings, no dialog
NewController ==
    [enabled |-> FALSE, method |-> "none",
     marlin_add_to_gcode |-> FALSE, klipper_add_to_gcode |-> FALSE,
     pp_script_checkbox_state |-> FALSE, dialog |-> FALSE]

\* the printer has no settings file yet
NoSettingsFile ==
    [exists |-> FALSE, compensation_enabled |-> "", compensation_method |-> "",
     marlin_add_to_gcode |-> "", klipper_add_to_gcode |-> "",
     pp_script_checkbox_state |-> ""]

NoHandler == [handler |-> "none", calls |-> <<>>]

CtlUnused ==
    /\ controller = NewController
    /\ settings_file = NoSettingsFile
    /\ post_processing = [scriptList |-> <<>>, loaded |-> TRUE]
    /\ handled = NoHandler

ExecUnused ==
    /\ CtlUnused
    /\ script = NewScript
    /\ config = DefaultSettings
    /\ exec = NoExec

CmdUnused ==
    /\ last_cmd = NoCommand
    /\ start_gcode = <<>>
    /\ synced = NotSynced
    /\ ExecUnused

InitCalc ==
    /\ calculator = NewCalculator.obj
    /\ raised = NewCalculator.exc
    /\ GeoUnused
    /\ CompUnused
    /\ CmdUnused

SetMeasurements ==
    \E xy \in XYInputs, xz \in XZInputs, yz \in YZInputs :
        LET r == set_measurements(calculator, xy, xz, yz)
        IN  /\ calculator' = r.obj
            /\ raised' = r.exc
            /\ UNCHANGED <<geoVars, compVars, cmdVars, execVars, ctlVars>>

NextCalc == SetMeasurements

SpecCalc == InitCalc /\ [][NextCalc]_vars

---------------------------------------------------------------------------
(* PrintSkewCompensationCKM.calculate_skew_factor *)

Two == Fin(2, 1)

\* The residues one rounding of a square root can leave: the square of the
\* rounded root falls below, on or above the radicand.
Rounding == {-1, 0, 1}

\* math.sqrt raises ValueError (math domain error) on a negative argument
SqrtRaises(x) == FLt0(x)

\* math.sqrt(x), x >= 0 or NaN: a root is in general irrational, so it is held
\* as the value whose square is sq (a "fin", "inf" or "nan" float)
FSqrt(x) == [sq |-> x]

\* whether the root of the finite value x is a double: then no rounding occurs
ExactRoot(x) == x.d = 1 /\ IsSquare(x.n)

\* root / 2, 2 * root and root * y (y > 0 or NaN) on a held root
RootHalf(rt) == [sq |-> FDiv(rt.sq, Four)]
RootDouble(rt) == [sq |-> FMul(rt.sq, Four)]
RootTimes(rt, y) == [sq |-> FMul(rt.sq, FMul(y, y))]
RootIsZero(rt) == FIsZero(rt.sq)

\* root * root: the radicand again, up to the residue r of the rounded root
RootSquare(rt, exact, r) ==
    IF rt.sq.k = "fin" /\ rt.sq.n # 0 /\ ~exact
    THEN [rt.sq EXCEPT !.e = r]
    ELSE rt.sq

\* x / root for a root # 0: the float of sign Sgn(x) and square x*x / sq ("arg")
DivByRoot(x, rt) ==
    IF x.k = "nan" \/ rt.sq.k = "nan" THEN NaN
    ELSE IF rt.sq.k = "inf" THEN (IF x.k = "inf" THEN NaN ELSE Zero)
    ELSE IF x.k = "inf" THEN x
    ELSE LET q == FDiv(FMul(x, x), rt.sq)
         IN  [k |-> "fin", n |-> Sgn(x.n) * q.n, d |-> q.d, e |-> x.e]

\* -1 <= arg <= 1 for an arg given by its sign and square
InUnitRange(arg) ==
    /\ arg.k = "fin"
    /\ \/ Abs(arg.n) < arg.d
       \/ Abs(arg.n) = arg.d /\ Sgn(arg.n) * arg.e <= 0

\* math.tan(math.pi/2 - math.acos(arg)) for arg in [-1, 1]: 0.0 at arg = 0.0,
\* the residue alone at arg = 0 + residue
TanOfAcos(arg) ==
    IF arg.n = 0 THEN FinE(0, 1, arg.e)
    ELSE [k |-> "cot", n |-> arg.n, d |-> arg.d, e |-> arg.e]

\* arg clamped to [-1, 1], as _calculate_skew_factor of the calculator does
Clamped(arg) ==
    IF arg.k = "fin" /\ Abs(arg.n) > arg.d THEN Fin(Sgn(arg.n), 1) ELSE arg

skew_from_arg_clamped(arg_acos) ==
    IF arg_acos.k # "fin"
    THEN [val |-> Zero, log |-> "w"]
    ELSE [val |-> TanOfAcos(Clamped(arg_acos)), log |-> "none"]

\* lines 322-327: the range check on arg_acos and the result
skew_from_arg(arg_acos) ==
    IF ~InUnitRange(arg_acos)
    THEN [val |-> Zero, log |-> "w"]
    ELSE [val |-> TanOfAcos(arg_acos), log |-> "none"]

InvalidMeasurement_ad_only(ac, bd, ad) == FLe0(ad)

\* line 306: ac <= 0 or bd <= 0 or ad <= 0
InvalidMeasurement(ac, bd, ad) == FLe0(ac) \/ FLe0(bd) \/ FLe0(ad)

NegativeRadicand_unchecked(term_sqrt) == FALSE

\* line 311: term_sqrt < 0
NegativeRadicand(term_sqrt) == FLt0(term_sqrt)

\* line 310: 2*ac*ac + 2*bd*bd - 4*ad*ad
Radicand(ac, bd, ad) ==
    FSub(FAdd(FMul(FMul(Two, ac), ac), FMul(FMul(Two, bd), bd)),
         FMul(FMul(Four, ad), ad))

\* calculate_skew_factor(ac, bd, ad) with r the residue of math.sqrt:
\* [val, log], log the level of the message written ("none", "w", "e": the
\* except clauses, which also return 0.0)
calculate_skew_factor(ac, bd, ad, r) ==
    IF InvalidMeasurement(ac, bd, ad)
    THEN [val |-> Zero, log |-> "w"]
    ELSE LET term_sqrt == Radicand(ac, bd, ad)
         IN  IF NegativeRadicand(term_sqrt)
             THEN [val |-> Zero, log |-> "w"]
             ELSE IF SqrtRaises(term_sqrt)
             THEN [val |-> Zero, log |-> "e"]
             ELSE LET ab == RootHalf(FSqrt(term_sqrt))
                      denominator_acos == RootTimes(RootDouble(ab), ad)
                      ab2 == RootSquare(ab, term_sqrt.k = "fin" /\ ExactRoot(term_sqrt), r)
                  IN  IF RootIsZero(denominator_acos)
                      THEN [val |-> Zero, log |-> "w"]
                      ELSE skew_from_arg(
                               DivByRoot(FSub(FSub(FMul(ac, ac), ab2), FMul(ad, ad)),
                                         denominator_acos))

\* the arguments calculate_skew_factor is given
GeoVals ==
    { Fin(-100, 1), Zero, Fin(10, 1), Fin(60, 1), Fin(70, 1), Fin(100, 1),
      Fin(130, 1), Fin(150, 1), NaN, Inf(1), Big(1) }

\* not yet called
PendingGeo == [val |-> Zero, log |-> "pending"]
PendingQuarter == [val |-> Zero, exc |-> "pending"]

InitGeo ==
    /\ g_in \in (GeoVals \X GeoVals \X GeoVals) \cup {<<Default_ac, Default_ac, Default_ad>>}
    /\ g_geo = PendingGeo
    /\ g_quarter = PendingQuarter
    /\ calculator = NewCalculator.obj
    /\ raised = "none"
    /\ CompUnused
    /\ CmdUnused

\* the post-processing script computes the factor of a plane
RunGeometric ==
    /\ g_geo = PendingGeo
    /\ \E r \in Rounding : g_geo' = calculate_skew_factor(g_in[1], g_in[2], g_in[3], r)
    /\ UNCHANGED <<g_in, g_quarter, calcVars, compVars, cmdVars, execVars, ctlVars>>

\* the calculator computes the factor of the same plane
RunQuarter ==
    /\ g_quarter = PendingQuarter
    /\ g_quarter' = quarter_block(g_in[1], g_in[2], g_in[3])
    /\ UNCHANGED <<g_in, g_geo, calcVars, compVars, cmdVars, execVars, ctlVars>>

NextGeo == RunGeometric \/ RunQuarter

SpecGeo == InitGeo /\ [][NextGeo]_vars

---------------------------------------------------------------------------
(* PrintSkewCompensationCKM.cura_compensation *)

\* round(x, 3) on a finite float: the nearest multiple of 1/1000. On a tie the
\* even one is taken; round() decides a tie by the double's binary value, and
\* none of the values explored is a tie.
Round3(x) ==
    LET whole == x.n \div x.d
        m == (x.n % x.d) * 1000
        q == whole * 1000 + (m \div x.d)
        rem == m % x.d
        up == 2 * rem > x.d \/ (2 * rem = x.d /\ q % 2 = 1)
    IN  Fin(IF up THEN q + 1 ELSE q, 1000)

\* line.startswith(("G0", "G1"))
IsMove(line) == line.cmd \in {"G0", "G1"}

\* self.getValue(line, key, None): the number after the key, None without it
getValue(line, key) == line[key]

track_z_reset(z, cur_z) == IF cur_z # PyNone THEN cur_z ELSE Zero

\* lines 360-361: z_input after a move line whose Z token is cur_z
track_z(z, cur_z) == IF cur_z # PyNone THEN cur_z ELSE z

shear_x_corrected_y(x_input, y_input, z, f) ==
    Round3(FSub(Round3(FSub(x_input, FMul(Round3(FSub(y_input, FMul(z, f.yz))), f.xy))),
                FMul(z, f.xz)))

\* lines 364-365: x_out
shear_x(x_input, y_input, z, f) ==
    Round3(FSub(Round3(FSub(x_input, FMul(y_input, f.xy))), FMul(z, f.xz)))

\* line 366: y_out
shear_y(y_input, z, f) == Round3(FSub(y_input, FMul(z, f.yz)))

\* The text of a number token, by its relation to str(v) of the value v that
\* getValue returns for it:
\*   "none"   no token
\*   "int"    str(v) of an int v                          X100
\*   "float"  str(v) of a float v                         Y10.26
\*   "zeros"  str(v) of a float v, then further zeros     X100.000
\*   "other"  a text that does not contain str(v)         X100.  X0100
\* The rest of a move line: "none", "params" (E, F, ...), "comment" (a trailing
\* comment), "commentX" (a trailing comment that holds the text X<str(cur_x)>),
\* "commentXout" (that comment with X<str(x_out)> in its place).
TokenForms == {"none", "int", "float", "zeros", "other"}

\* f"X{cur}" == f"X{out}": an int never prints as a float does
same_text(cur, form, out) == form # "int" /\ cur = out

\* lines[index].replace(f"X{cur}", f"X{out}") on the token itself: [val, form]
replace_token(cur, form, out) ==
    CASE form \in {"int", "float"} -> [val |-> out, form |-> "float"]
      [] form = "zeros" -> [val |-> out, form |-> "zeros"]
      [] OTHER -> [val |-> cur, form |-> form]

\* the same replace on the rest of the line: every occurrence is replaced
replace_rest(rest, cur, form, out) ==
    IF rest = "commentX" /\ ~same_text(cur, form, out) THEN "commentXout" ELSE rest

\* the digits after the point in str(v) of a float v that round(.., 3) returned:
\* as few as print the value, and at least one (100.0, 99.9, 10.26, 99.897)
decimals_of(v) == IF 10 % v.d = 0 THEN 1 ELSE IF 100 % v.d = 0 THEN 2 ELSE 3

\* lines 373 and 375: cur_x != None, cur_y != None
rewrite_axis(cur) == cur # PyNone

skip_layer_first_only(layer) == layer < 1

\* line 369: the first two layers are tracked but not rewritten
skip_layer(layer) == layer < 2

axis_input_kept(cur, last) ==
    IF cur # PyNone THEN cur ELSE IF last # PyNone THEN last ELSE Zero

\* lines 352-359: x_input, y_input of a line whose token is cur: reset to 0,
\* then set from the token; `last`, the token of the last line that had one,
\* is not used
axis_input(cur, last) == IF cur # PyNone THEN cur ELSE Zero

\* lines 346-376, one iteration of the inner loop on `line` in layer `layer`:
\* [z, x_out, y_out, line] after it (xo, yo: x_out and y_out before it; sx, sy:
\* the X and Y tokens last seen before it)
line_step(layer, z, xo, yo, sx, sy, line, f) ==
    IF ~IsMove(line)
    THEN [z |-> z, x_out |-> xo, y_out |-> yo, line |-> line]
    ELSE LET cur_x == getValue(line, "X")
             cur_y == getValue(line, "Y")
             cur_z == getValue(line, "Z")
             x_input == axis_input(cur_x, sx)
             y_input == axis_input(cur_y, sy)
             z1 == track_z(z, cur_z)
             x1 == shear_x(x_input, y_input, z1, f)
             y1 == shear_y(y_input, z1, f)
             tx == IF rewrite_axis(cur_x) THEN replace_token(cur_x, line.Xf, x1)
                   ELSE [val |-> cur_x, form |-> line.Xf]
             ty == IF rewrite_axis(cur_y) THEN replace_token(cur_y, line.Yf, y1)
                   ELSE [val |-> cur_y, form |-> line.Yf]
         IN  [z |-> z1, x_out |-> x1, y_out |-> y1,
              line |-> IF skip_layer(layer) THEN line
                       ELSE [line EXCEPT
                                !.X = tx.val, !.Xf = tx.form,
                                !.Y = ty.val, !.Yf = ty.form,
                                !.rest = IF rewrite_axis(cur_x)
                                         THEN replace_rest(@, cur_x, line.Xf, x1)
                                         ELSE @]]

\* the largest layer index of the documents explored
MaxLayerIndex == 2

\* the lines of the documents explored
\* "G1 X100 Y10.26 Z0.26"-like lines: an int X, a float Y, any subset of axes
PlainLine(cmd, x, y, z) ==
    [cmd |-> cmd, X |-> x, Y |-> y, Z |-> z,
     Xf |-> IF x = PyNone THEN "none" ELSE "int",
     Yf |-> IF y = PyNone THEN "none" ELSE "float",
     rest |-> "none"]

\* "G1 X100.000 Y10.26", "G1 X100. Y10.26", "G1 X100 Y00.1234",
\* "G1 X100 Y10.26 E1.5 F1200", "G1 X100 Y10.26 ;to X100"
TextLines ==
    { [PlainLine("G1", Fin(100, 1), Fin(1026, 100), PyNone) EXCEPT !.Xf = "zeros"],
      [PlainLine("G1", Fin(100, 1), Fin(1026, 100), PyNone) EXCEPT !.Xf = "other"],
      [PlainLine("G1", Fin(100, 1), Fin(1234, 10000), PyNone) EXCEPT !.Yf = "other"],
      [PlainLine("G1", Fin(100, 1), Fin(1026, 100), PyNone) EXCEPT !.rest = "params"],
      [PlainLine("G1", Fin(100, 1), Fin(1026, 100), PyNone) EXCEPT !.rest = "commentX"] }

Lines ==
    { PlainLine("G1", x, y, z) : x \in {PyNone, Fin(100, 1)}, y \in {PyNone, Fin(1026, 100)},
                                 z \in {PyNone, Fin(26, 100), Fin(10, 1)} }
    \cup { PlainLine("G0", Fin(100, 1), Fin(1026, 100), Fin(10, 1)) }
    \cup TextLines
    \cup {CommentLine}

\* the factors the script has calculated
FactorVals == {Zero, Fin(1, 100)}

\* no skew, one skewed plane, or all three
FactorSets ==
    { f \in [xy : FactorVals, xz : FactorVals, yz : FactorVals] :
        Cardinality({p \in {"xy", "xz", "yz"} : f[p] # Zero}) # 2 }

InitComp ==
    /\ c_pc = "idle"
    /\ c_factors \in FactorSets
    /\ layer_index = 0
    /\ z_input = Zero
    /\ c_line = CommentLine
    /\ x_out = Zero
    /\ y_out = Zero
    /\ c_out = CommentLine
    /\ line_layer = -1
    /\ seen_x = PyNone
    /\ seen_y = PyNone
    /\ z_layer = -1
    /\ calculator = NewCalculator.obj
    /\ raised = "none"
    /\ GeoUnused
    /\ CmdUnused

\* cura_compensation is called: lines 337-341
Invoke ==
    /\ c_pc # "running"
    /\ c_pc' = "running"
    /\ layer_index' = 0
    /\ z_input' = Zero
    /\ c_line' = CommentLine
    /\ x_out' = Zero
    /\ y_out' = Zero
    /\ c_out' = CommentLine
    /\ line_layer' = -1
    /\ seen_x' = PyNone
    /\ seen_y' = PyNone
    /\ z_layer' = -1
    /\ UNCHANGED <<c_factors, calcVars, geoVars, cmdVars, execVars, ctlVars>>

\* one iteration of the inner loop, on the next line of the layer
ProcessLine ==
    /\ c_pc = "running"
    /\ \E line \in Lines :
        LET r == line_step(layer_index, z_input, x_out, y_out, seen_x, seen_y,
                           line, c_factors)
        IN  /\ c_line' = line
            /\ z_input' = r.z
            /\ x_out' = r.x_out
            /\ y_out' = r.y_out
            /\ c_out' = r.line
            /\ line_layer' = layer_index
            /\ seen_x' = IF IsMove(line) /\ getValue(line, "X") # PyNone
                         THEN getValue(line, "X") ELSE seen_x
            /\ seen_y' = IF IsMove(line) /\ getValue(line, "Y") # PyNone
                         THEN getValue(line, "Y") ELSE seen_y
            /\ z_layer' = IF IsMove(line) /\ getValue(line, "Z") # PyNone
                          THEN layer_index ELSE z_layer
    /\ UNCHANGED <<c_pc, c_factors, layer_index, calcVars, geoVars, cmdVars, execVars, ctlVars>>

\* line 377 and the next iteration of the outer loop
NextLayer ==
    /\ c_pc = "running"
    /\ layer_index < MaxLayerIndex
    /\ layer_index' = layer_index + 1
    /\ UNCHANGED <<c_pc, c_factors, z_input, c_line, x_out, y_out, c_out, line_layer,
                   seen_x, seen_y, z_layer, calcVars, geoVars, cmdVars, execVars, ctlVars>>

\* line 378
Return ==
    /\ c_pc = "running"
    /\ c_pc' = "done"
    /\ UNCHANGED <<c_factors, layer_index, z_input, c_line, x_out, y_out, c_out,
                   line_layer, seen_x, seen_y, z_layer, calcVars, geoVars, cmdVars, execVars, ctlVars>>

NextComp == Invoke \/ ProcessLine \/ NextLayer \/ Return

SpecComp == InitComp /\ [][NextComp]_vars

---------------------------------------------------------------------------
(* SkewCalculator.get_marlin_command, get_klipper_command.

   A returned string is modelled by its parts in order:
     prefix  the command word the string starts with,
     args    the space-separated parameters, each a key and the
             comma-separated formatted numbers that follow it,
     comment the text from the ';' to the end of the string.
   A formatted number is [k, neg, whole, frac, places]: the digits before and
   after the decimal point, or one of the words Python prints. *)

RECURSIVE Digits(_, _, _)
\* the first p decimal digits of rem / d (0 <= rem < d) and what is left over
Digits(rem, d, p) ==
    IF p = 0 THEN [q |-> 0, rem |-> rem]
    ELSE LET r == Digits(rem, d, p - 1)
         IN  [q |-> r.q * 10 + ((r.rem * 10) \div d), rem |-> (r.rem * 10) % d]

RECURSIVE Pow10(_)
Pow10(p) == IF p = 0 THEN 1 ELSE 10 * Pow10(p - 1)

Word(k, neg) == [k |-> k, neg |-> neg, whole |-> 0, frac |-> 0, places |-> 0]

\* format(x, ".<p>f") of a float x
Format(x, p) ==
    CASE x.k = "nan" -> Word("nan", FALSE)
      [] x.k = "inf" -> Word("inf", x.n < 0)
      [] x.k = "big" -> Word("big", x.n < 0)
      [] OTHER ->
           LET a == Abs(x.n)
               r == Digits(a % x.d, x.d, p)
               up == 2 * r.rem > x.d \/ (2 * r.rem = x.d /\ r.q % 2 = 1)
               q == IF up THEN r.q + 1 ELSE r.q
               carry == q = Pow10(p)
           IN  [k |-> "num", neg |-> x.n < 0,
                whole |-> (a \div x.d) + (IF carry THEN 1 ELSE 0),
                frac |-> IF carry THEN 0 ELSE q, places |-> p]

MarlinPrefix == "M852"
KlipperPrefix == "SET_SKEW"
\* f" ; {PluginConstants.PLUGIN_ID}"
PluginComment == "; PrintSkewCompensation"
\* the comment of the string returned on a measurement float() rejects
ErrorComment == "; Error: Invalid measurements (PrintSkewCompensation)"

MarlinPlaces == 8
KlipperPlaces == 3

Arg(key, vals) == [key |-> key, vals |-> vals]

get_marlin_command_J_K_swapped(c) ==
    [prefix |-> MarlinPrefix,
     args |-> << Arg("I", <<Format(c.marlin_I, MarlinPlaces)>>),
                 Arg("J", <<Format(c.marlin_K, MarlinPlaces)>>),
                 Arg("K", <<Format(c.marlin_J, MarlinPlaces)>>) >>,
     comment |-> PluginComment]

\* get_marlin_command
get_marlin_command(c) ==
    [prefix |-> MarlinPrefix,
     args |-> << Arg("I", <<Format(c.marlin_I, MarlinPlaces)>>),
                 Arg("J", <<Format(c.marlin_J, MarlinPlaces)>>),
                 Arg("K", <<Format(c.marlin_K, MarlinPlaces)>>) >>,
     comment |-> PluginComment]

\* the measurements in the order the object stores them
Measurements(c) ==
    << c.xy_ac, c.xy_bd, c.xy_ad, c.xz_ac, c.xz_bd, c.xz_ad,
       c.yz_ac, c.yz_bd, c.yz_ad >>

KlipperPart(key, ac, bd, ad) ==
    Arg(key, << Format(ac, KlipperPlaces), Format(bd, KlipperPlaces),
                Format(ad, KlipperPlaces) >>)

\* the exception float(v) raises, or "none"
FloatError(v) ==
    CASE v.k = "none" -> "TypeError"
      [] v.k = "text" -> "ValueError"
      [] OTHER -> "none"

\* the exception of the first float() call of the try block that raises
FirstFloatError(c) ==
    LET bad == {i \in 1..9 : FloatError(Measurements(c)[i]) # "none"}
        first == CHOOSE i \in bad : \A j \in bad : i <= j
    IN  IF bad = {} THEN "none" ELSE FloatError(Measurements(c)[first])

\* except (ValueError, TypeError)
KlipperCaught == {"ValueError", "TypeError"}

get_klipper_command_ad_first(c) ==
    LET e == FirstFloatError(c)
    IN  IF e = "none"
        THEN [text |-> [prefix |-> KlipperPrefix,
                        args |-> << KlipperPart("XY", c.xy_ad, c.xy_ac, c.xy_bd),
                                    KlipperPart("XZ", c.xz_ad, c.xz_ac, c.xz_bd),
                                    KlipperPart("YZ", c.yz_ad, c.yz_ac, c.yz_bd) >>,
                        comment |-> PluginComment],
              exc |-> "none"]
        ELSE IF e \in KlipperCaught
        THEN [text |-> [prefix |-> KlipperPrefix, args |-> <<>>,
                        comment |-> ErrorComment],
              exc |-> "none"]
        ELSE [text |-> <<>>, exc |-> e]

\* get_klipper_command: [text, exc], the string returned or the exception
\* that leaves the method
get_klipper_command(c) ==
    LET e == FirstFloatError(c)
    IN  IF e = "none"
        THEN [text |-> [prefix |-> KlipperPrefix,
                        args |-> << KlipperPart("XY", c.xy_ac, c.xy_bd, c.xy_ad),
                                    KlipperPart("XZ", c.xz_ac, c.xz_bd, c.xz_ad),
                                    KlipperPart("YZ", c.yz_ac, c.yz_bd, c.yz_ad) >>,
                        comment |-> PluginComment],
              exc |-> "none"]
        ELSE IF e \in KlipperCaught
        THEN [text |-> [prefix |-> KlipperPrefix, args |-> <<>>,
                        comment |-> ErrorComment],
              exc |-> "none"]
        ELSE [text |-> <<>>, exc |-> e]

\* the measurements the command readers are exercised on
CmdXY ==
    { <<Fin(150, 1), Fin(130, 1), Fin(100, 1)>>,
      <<Fin(130, 1), Fin(150, 1), Fin(100, 1)>>,
      <<NaN, Fin(130, 1), Fin(100, 1)>>,
      <<PyText, Fin(130, 1), Fin(100, 1)>> }

CmdXZ ==
    { <<Fin(130, 1), Fin(150, 1), Fin(100, 1)>>,
      <<Fin(130, 1), Inf(1), Fin(100, 1)>>,
      <<Fin(130, 1), Fin(150, 1), Fin(200, 3)>> }

CmdYZ ==
    { <<Fin(150, 1), Fin(130, 1), Fin(50, 1)>>,
      <<Fin(150, 1), Fin(130, 1), PyNone>>,
      <<Fin(150, 1), Big(1), Fin(50, 1)>> }

InitCmd ==
    /\ calculator = NewCalculator.obj
    /\ raised = NewCalculator.exc
    /\ last_cmd = NoCommand
    /\ start_gcode = <<>>
    /\ synced = NotSynced
    /\ ExecUnused
    /\ GeoUnused
    /\ CompUnused

SetMeasurementsCmd ==
    \E xy \in CmdXY, xz \in CmdXZ, yz \in CmdYZ :
        LET r == set_measurements(calculator, xy, xz, yz)
        IN  /\ calculator' = r.obj
            /\ raised' = r.exc
            /\ last_cmd' = NoCommand
            /\ UNCHANGED <<start_gcode, synced, geoVars, compVars, execVars, ctlVars>>

\* the string returned, and how many times in a row this reader returned
Returned(kind, text) ==
    [kind |-> kind, text |-> text,
     calls |-> IF last_cmd.kind = kind THEN 2 ELSE 1]

GetMarlinCommand ==
    /\ last_cmd' = Returned("marlin", get_marlin_command(calculator))
    /\ raised' = "none"
    /\ UNCHANGED <<calculator, start_gcode, synced, geoVars, compVars, execVars, ctlVars>>

GetKlipperCommand ==
    LET r == get_klipper_command(calculator)
    IN  /\ last_cmd' = IF r.exc = "none" THEN Returned("klipper", r.text)
                       ELSE NoCommand
        /\ raised' = r.exc
    /\ UNCHANGED <<calculator, start_gcode, synced, geoVars, compVars, execVars, ctlVars>>

NextCmd == SetMeasurementsCmd \/ GetMarlinCommand \/ GetKlipperCommand

SpecCmd == InitCmd /\ [][NextCmd]_vars

---------------------------------------------------------------------------
(* GCodeManager.sync_start_gcode.

   The start G-code is the sequence of its lines, each a line in the parts
   of a command string; lines carry no surrounding blanks. *)

\* plugin_comment in stripped_line: of the comments a line here can have,
\* only the tag itself holds the text "; PrintSkewCompensation" (the error
\* comment has the plugin id after "(", not after "; ")
contains_plugin_comment_any(line) == TRUE

contains_plugin_comment(line) == line.comment = PluginComment

is_marlin_skew(line) == line.prefix = MarlinPrefix /\ contains_plugin_comment(line)
is_klipper_skew(line) == line.prefix = KlipperPrefix /\ contains_plugin_comment(line)

\* command_to_ensure = None
NoLine == <<>>

\* lines 91-95
command_to_ensure(marlin_command, klipper_command, method, marlin_add, klipper_add) ==
    IF method = "marlin" /\ marlin_add THEN marlin_command
    ELSE IF method = "klipper" /\ klipper_add THEN klipper_command
    ELSE NoLine

\* lines 110-120: a plugin line that is the wanted command stays
keeps_line(gcode, i, ensure) ==
    \/ ~is_marlin_skew(gcode[i]) /\ ~is_klipper_skew(gcode[i])
    \/ ensure # NoLine /\ gcode[i] = ensure

RECURSIVE filter_lines(_, _, _)
\* the loop of lines 103-120 over the first n lines: new_gcode_lines
filter_lines(gcode, n, ensure) ==
    IF n = 0 THEN <<>>
    ELSE IF keeps_line(gcode, n, ensure)
         THEN Append(filter_lines(gcode, n - 1, ensure), gcode[n])
         ELSE filter_lines(gcode, n - 1, ensure)

sync_lines_always_appends(gcode, marlin_command, klipper_command, method, marlin_add, klipper_add) ==
    LET ensure == command_to_ensure(marlin_command, klipper_command,
                                    method, marlin_add, klipper_add)
        new_gcode_lines == filter_lines(gcode, Len(gcode), ensure)
        command_added == ensure # NoLine
        lines_changed == Len(new_gcode_lines) # Len(gcode) \/ command_added
        new_start_gcode ==
            IF command_added THEN Append(new_gcode_lines, ensure) ELSE new_gcode_lines
        wrote == lines_changed /\ new_start_gcode # gcode
    IN  [text |-> IF wrote THEN new_start_gcode ELSE gcode, wrote |-> wrote]

\* lines 86-150 on the text gcode: [text, wrote], the text of the property
\* afterwards and whether setProperty was called
sync_lines(gcode, marlin_command, klipper_command, method, marlin_add, klipper_add) ==
    LET ensure == command_to_ensure(marlin_command, klipper_command,
                                    method, marlin_add, klipper_add)
        new_gcode_lines == filter_lines(gcode, Len(gcode), ensure)
        existing_command_found_and_correct ==
            \E i \in 1..Len(gcode) :
                /\ is_marlin_skew(gcode[i]) \/ is_klipper_skew(gcode[i])
                /\ ensure # NoLine /\ gcode[i] = ensure
        already_present_exact ==
            \E i \in 1..Len(new_gcode_lines) : new_gcode_lines[i] = ensure
        command_added ==
            ensure # NoLine /\ ~existing_command_found_and_correct
                            /\ ~already_present_exact
        lines_changed == Len(new_gcode_lines) # Len(gcode) \/ command_added
        new_start_gcode ==
            IF command_added THEN Append(new_gcode_lines, ensure) ELSE new_gcode_lines
        wrote == lines_changed /\ new_start_gcode # gcode
    IN  [text |-> IF wrote THEN new_start_gcode ELSE gcode, wrote |-> wrote]

\* what the host gives: everything, no global container stack (lines 58-61),
\* no settings container (63-66), an exception of getProperty (68-76)
HostStates == {"ready", "no_stack", "no_container", "no_gcode"}

\* sync_start_gcode: [text, wrote], the start G-code after the call and
\* whether it was written
sync_start_gcode(gcode, c, host, method, marlin_add, klipper_add) ==
    LET marlin_command == get_marlin_command(c)
        klipper == get_klipper_command(c)
    IN  IF host # "ready" \/ klipper.exc # "none"
        THEN [text |-> gcode, wrote |-> FALSE]
        ELSE sync_lines(gcode, marlin_command, klipper.text,
                        method, marlin_add, klipper_add)

\* a line of the user's own
UserLine == [prefix |-> "G28", args |-> <<>>, comment |-> ""]

\* the measurements the calculator is given between syncs: a skewed print,
\* another one, and one with a text measurement
SyncInputs ==
    { << <<Fin(150, 1), Fin(130, 1), Fin(100, 1)>>,
         <<Fin(130, 1), Fin(150, 1), Fin(100, 1)>>,
         <<Fin(150, 1), Fin(130, 1), Fin(50, 1)>> >>,
      << <<Fin(130, 1), Fin(150, 1), Fin(100, 1)>>,
         <<Fin(130, 1), Fin(150, 1), Fin(100, 1)>>,
         <<Fin(150, 1), Fin(130, 1), Fin(50, 1)>> >>,
      << <<PyText, Fin(130, 1), Fin(100, 1)>>,
         <<Fin(130, 1), Fin(150, 1), Fin(100, 1)>>,
         <<Fin(150, 1), Fin(130, 1), Fin(50, 1)>> >> }

SyncCalculators ==
    {NewCalculator.obj} \cup
    { set_measurements(NewCalculator.obj, m[1], m[2], m[3]).obj : m \in SyncInputs }

\* the lines a start G-code holds before a sync: the user's own, commands
\* the plugin wrote earlier, and a M852 the user wrote without the tag
PriorLines ==
    {UserLine}
    \cup { get_marlin_command(c) : c \in SyncCalculators }
    \cup { get_klipper_command(c).text : c \in SyncCalculators }
    \cup { [get_marlin_command(NewCalculator.obj) EXCEPT !.comment = ""] }

MaxPriorLines == 2

RECURSIVE TextsOfLength(_)
TextsOfLength(n) ==
    IF n = 0 THEN {<<>>}
    ELSE { Append(t, l) : t \in TextsOfLength(n - 1), l \in PriorLines }

PriorTexts == UNION { TextsOfLength(n) : n \in 0..MaxPriorLines }

SyncModes == {"marlin", "klipper", "none"}

InitSync ==
    /\ calculator = NewCalculator.obj
    /\ raised = NewCalculator.exc
    /\ start_gcode \in PriorTexts
    /\ synced = NotSynced
    /\ ExecUnused
    /\ last_cmd = NoCommand
    /\ GeoUnused
    /\ CompUnused

SetMeasurementsSync ==
    \E m \in SyncInputs :
        LET r == set_measurements(calculator, m[1], m[2], m[3])
        IN  /\ calculator' = r.obj
            /\ raised' = r.exc
            /\ synced' = NotSynced
            /\ UNCHANGED <<start_gcode, last_cmd, geoVars, compVars, execVars, ctlVars>>

\* the calls made: every combination of arguments on a host that gives
\* everything, and one call for each thing the host can fail to give (the
\* function returns before it looks at its arguments)
SyncCalls ==
    [host : {"ready"}, method : SyncModes,
     marlin_add : BOOLEAN, klipper_add : BOOLEAN]
    \cup [host : HostStates \ {"ready"}, method : {"none"},
          marlin_add : {FALSE}, klipper_add : {FALSE}]

SyncStartGcode ==
    \E call \in SyncCalls :
        LET r == sync_start_gcode(start_gcode, calculator, call.host,
                                  call.method, call.marlin_add, call.klipper_add)
        IN  /\ start_gcode' = r.text
            /\ synced' = IF call.host = "ready"
                         THEN [method |-> call.method,
                               marlin_add |-> call.marlin_add,
                               klipper_add |-> call.klipper_add,
                               host |-> call.host, wrote |-> r.wrote]
                         ELSE [NotSynced EXCEPT !.host = call.host,
                                                !.wrote = r.wrote]
        /\ raised' = "none"
        /\ UNCHANGED <<calculator, last_cmd, geoVars, compVars, execVars, ctlVars>>

NextSync == SetMeasurementsSync \/ SyncStartGcode

SpecSync == InitSync /\ [][NextSync]_vars

---------------------------------------------------------------------------
(* PrintSkewCompensationCKM.execute and _calculate_factors_from_configuration.

   A document is the sequence of its layers.  A layer is held by what execute
   can tell or change of it:
     kind   "layer" for a layer of the input, "summary" for the settings block,
     id     the index the layer had in the input,
     post   whether its text contains ";POSTPROCESSED",
     notes  the comment lines appended to it, in order,
     comp   whether cura_compensation has processed it. *)

\* get_float_setting: None for a missing key or a text float() rejects
get_float_setting(v) == IF v.k \in {"none", "text"} THEN PyNone ELSE v

\* lines 123-142, 145-163, 166-184: one plane's factor and whether it was
\* calculated
plane_factor(t, r) ==
    LET ac == get_float_setting(t[1])
        bd == get_float_setting(t[2])
        ad == get_float_setting(t[3])
    IN  IF PyNone \notin {ac, bd, ad}
        THEN [val |-> calculate_skew_factor(ac, bd, ad, r).val, found |-> TRUE]
        ELSE [val |-> Zero, found |-> FALSE]

Calculated == "configuration (calculated)"

\* lines 104-108 and 186-195 on the three planes' results xy, xz, yz: the
\* fields of the instance afterwards
factors_of_planes(s, cfg, xy, xz, yz) ==
    [plugin_enabled |->
         IF cfg.compensation_enabled
            /\ (s.found_in_configuration \/ xy.found \/ xz.found \/ yz.found)
         THEN "True" ELSE "False",
     found_in_configuration |->
         s.found_in_configuration \/ xy.found \/ xz.found \/ yz.found,
     factors |->
         IF cfg.compensation_enabled
         THEN [xy |-> xy.val, xz |-> xz.val, yz |-> yz.val]
         ELSE [xy |-> Zero, xz |-> Zero, yz |-> Zero],
     settings_source |->
         IF xy.found THEN Calculated
         ELSE IF (xz.found \/ yz.found) /\ s.settings_source = "None"
         THEN Calculated
         ELSE s.settings_source]

planes_all_or_none(s, cfg, xy, xz, yz) ==
    factors_of_planes(s, cfg,
        [xy EXCEPT !.val = IF xz.found /\ yz.found THEN @ ELSE Zero],
        [xz EXCEPT !.val = IF xy.found /\ yz.found THEN @ ELSE Zero],
        [yz EXCEPT !.val = IF xy.found /\ xz.found THEN @ ELSE Zero])

calculate_factors_all_or_none(s, cfg, r) ==
    planes_all_or_none(s, cfg,
        plane_factor(cfg.xy, r[1]),
        plane_factor(cfg.xz, r[2]),
        plane_factor(cfg.yz, r[3]))

\* _calculate_factors_from_configuration on the instance s with the settings
\* cfg; r gives the residue of math.sqrt for each plane
calculate_factors_from_configuration(s, cfg, r) ==
    factors_of_planes(s, cfg,
        plane_factor(cfg.xy, r[1]),
        plane_factor(cfg.xz, r[2]),
        plane_factor(cfg.yz, r[3]))

add_note_twice(data, note) ==
    [data EXCEPT ![1] = [@ EXCEPT !.notes = Append(Append(@, note), note)]]

\* data[0] += comment
add_note(data, note) ==
    [data EXCEPT ![1] = [@ EXCEPT !.notes = Append(@, note)]]

NotEnabledNote == ";[Print Skew Compensation] not enabled via script setting"
ApplyingNote == ";  [Print Skew Compensation] Applying skew compensation"

SummaryLayer ==
    [kind |-> "summary", id |-> 0, post |-> FALSE, notes |-> <<>>, comp |-> FALSE]

cura_compensation_first_layer_only(data) ==
    [i \in 1..Len(data) |-> [data[i] EXCEPT !.comp = (i = 1)]]

\* cura_compensation on a document: the outer loop visits every layer
cura_compensation_data(data) ==
    [i \in 1..Len(data) |-> [data[i] EXCEPT !.comp = TRUE]]

\* lines 259-303 of execute, on the instance s2 as
\* _calculate_factors_from_configuration left it
execute_loaded(s2, data) ==
    IF ~s2.found_in_configuration
    THEN [script |-> s2, data |-> data, msg |-> "ERROR"]
    ELSE IF FIsZero(s2.factors.xy) /\ FIsZero(s2.factors.xz)
            /\ FIsZero(s2.factors.yz)
    THEN [script |-> s2, data |-> data, msg |-> "WARNING"]
    ELSE [script |-> s2,
          data |-> Append(cura_compensation_data(add_note(data, ApplyingNote)),
                          SummaryLayer),
          msg |-> "none"]

\* execute on the instance s: [script, data, msg], the fields afterwards,
\* the document returned and the kind of Message shown
execute(s, cfg, data, r) ==
    IF s.plugin_enabled = "False"
    THEN [script |-> s, data |-> data, msg |-> "WARNING"]
    ELSE IF ~cfg.enable_print_skew_comp
    THEN [script |-> s, data |-> add_note(data, NotEnabledNote), msg |-> "WARNING"]
    ELSE IF data[1].post
    THEN [script |-> s, data |-> data, msg |-> "WARNING"]
    ELSE execute_loaded(calculate_factors_from_configuration(s, cfg, r), data)

\* measurements of a plane as the settings file can hold them: diagonals of
\* 160 and 120 (or 120 and 160) on a side of 100, equal diagonals, a missing
\* key, a text that is no number
Skewed == <<Fin(160, 1), Fin(120, 1), Fin(100, 1)>>
SkewedBack == <<Fin(120, 1), Fin(160, 1), Fin(100, 1)>>
Straight == <<Fin(130, 1), Fin(130, 1), Fin(50, 1)>>
Missing == <<Fin(160, 1), PyNone, Fin(100, 1)>>
NotANumber == <<Fin(160, 1), Fin(120, 1), PyText>>

PlaneSettings ==
    [xy |-> {Skewed, Missing}, xz |-> {Straight, NotANumber},
     yz |-> {Straight, SkewedBack}]

MaxDocLayers == 3

\* a document of n layers as the slicer hands it over
NewLayer(i, post) ==
    [kind |-> "layer", id |-> i, post |-> post, notes |-> <<>>, comp |-> FALSE]

Documents ==
    { [i \in 1..n |-> NewLayer(i - 1, post /\ i = 1)] :
          n \in 1..MaxDocLayers, post \in BOOLEAN }

InitExec ==
    /\ CtlUnused
    /\ script = NewScript
    /\ config = DefaultSettings
    /\ exec = NoExec
    /\ calculator = NewCalculator.obj
    /\ raised = "none"
    /\ last_cmd = NoCommand
    /\ start_gcode = <<>>
    /\ synced = NotSynced
    /\ GeoUnused
    /\ CompUnused

\* the plugin writes the settings file of the printer
WriteSettings ==
    /\ \E enabled \in BOOLEAN, xy \in PlaneSettings.xy, xz \in PlaneSettings.xz,
          yz \in PlaneSettings.yz :
           config' = [config EXCEPT !.compensation_enabled = enabled,
                                    !.xy = xy, !.xz = xz, !.yz = yz]
    /\ UNCHANGED <<script, exec, calcVars, geoVars, compVars, cmdVars, ctlVars>>

\* the user sets enable_print_skew_comp in the script's own settings
SetScriptSetting ==
    /\ config' = [config EXCEPT !.enable_print_skew_comp = ~@]
    /\ UNCHANGED <<script, exec, calcVars, geoVars, compVars, cmdVars, ctlVars>>

\* the residues math.sqrt can leave on the plane t: none when the plane is
\* not calculated or its root is a double
PlaneRoundings(t) ==
    IF \E i \in 1..3 : t[i].k # "fin" THEN {0}
    ELSE IF ExactRoot(Radicand(t[1], t[2], t[3])) THEN {0}
    ELSE Rounding

\* Cura runs the script on a sliced document
Execute ==
    \E data \in Documents :
    \E r \in PlaneRoundings(config.xy) \X PlaneRoundings(config.xz)
                 \X PlaneRoundings(config.yz) :
        \E e \in {execute(script, config, data, r)} :
            /\ script' = e.script
            /\ exec' = [input |-> data, data |-> e.data, msg |-> e.msg, called |-> TRUE]
            /\ UNCHANGED <<config, calcVars, geoVars, compVars, cmdVars, ctlVars>>

NextExec == WriteSettings \/ SetScriptSetting \/ Execute

SpecExec == InitExec /\ [][NextExec]_vars

---------------------------------------------------------------------------
(* PluginController: the menu dialog's handlers and _ensure_pp_script_state.
   The handlers run on a world w: the controller's fields (w.c), the active
   post-processing list (w.list) and the loaded scripts (w.loaded: whether
   the plugin's script is among them), the start G-code (w.gcode) and the
   argument record of the last sync (w.synced), the settings file (w.file)
   and the _ensure_pp_script_state calls made so far (w.calls).  A printer
   is selected and PostProcessingPlugin is present. *)

\* the Python index of the first key in list, -1 when it is not there
IndexOf(list, key) ==
    IF \E i \in 1..Len(list) : list[i] = key
    THEN (CHOOSE i \in 1..Len(list) :
              list[i] = key /\ \A j \in 1..(i - 1) : list[j] # key) - 1
    ELSE -1

\* PostProcessingPlugin.moveScript(index, new_index), Python indices
moveScript(list, index, new_index) ==
    IF new_index < 0 \/ new_index > Len(list) - 1
    THEN list
    ELSE [list EXCEPT ![new_index + 1] = list[index + 1],
                      ![index + 1] = list[new_index + 1]]

\* PostProcessingPlugin.removeScriptByIndex(index)
removeScriptByIndex(list, index) ==
    [i \in 1..(Len(list) - 1) |-> IF i <= index THEN list[i] ELSE list[i + 1]]

\* lines 364-365, the loop from current_index down to 1
RECURSIVE move_to_front(_, _)
move_to_front(list, current_index) ==
    IF current_index <= 0 THEN list
    ELSE move_to_front(moveScript(list, current_index, current_index - 1),
                       current_index - 1)

ensure_pp_script_state_appends(list, loaded, target_state) ==
    LET current_index == IndexOf(list, PostProcessingScriptName)
        is_currently_active == current_index # -1
    IN  IF target_state /\ ~is_currently_active
        THEN IF loaded
             THEN [scriptList |-> Append(list, PostProcessingScriptName),
                   ret |-> TRUE, not_found |-> FALSE]
             ELSE [scriptList |-> list, ret |-> FALSE, not_found |-> TRUE]
        ELSE IF ~target_state /\ is_currently_active
        THEN [scriptList |-> removeScriptByIndex(list, current_index),
              ret |-> TRUE, not_found |-> FALSE]
        ELSE [scriptList |-> list, ret |-> TRUE, not_found |-> FALSE]

\* _ensure_pp_script_state(target_state) on the active list: the list
\* afterwards, the value returned, and whether the script was not found among
\* the loaded ones (the branch that sets self.method = "none")
ensure_pp_script_state(list, loaded, target_state) ==
    LET current_index == IndexOf(list, PostProcessingScriptName)
        is_currently_active == current_index # -1
    IN  IF target_state /\ ~is_currently_active
        THEN IF loaded
             THEN [scriptList |->
                       move_to_front(Append(list, PostProcessingScriptName),
                                     Len(list)),
                   ret |-> TRUE, not_found |-> FALSE]
             ELSE [scriptList |-> list, ret |-> FALSE, not_found |-> TRUE]
        ELSE IF ~target_state /\ is_currently_active
        THEN [scriptList |-> removeScriptByIndex(list, current_index),
              ret |-> TRUE, not_found |-> FALSE]
        ELSE [scriptList |-> list, ret |-> TRUE, not_found |-> FALSE]

\* the call inside a handler
ensure(w, target_state) ==
    LET r == ensure_pp_script_state(w.list, w.loaded, target_state)
    IN  [w EXCEPT !.list = r.scriptList,
                  !.c.method = IF r.not_found THEN "none" ELSE @,
                  !.calls = Append(@, [target |-> target_state,
                                       loaded |-> w.loaded,
                                       before |-> w.list,
                                       after |-> r.scriptList])]

\* _is_post_processing_script_active
is_post_processing_script_active(w) ==
    \E i \in 1..Len(w.list) : w.list[i] = PostProcessingScriptName

\* _sync_gcode_based_on_state
sync_gcode_based_on_state(w) ==
    LET effective_method == IF w.c.enabled THEN w.c.method ELSE "none"
        add_marlin ==
            w.c.enabled /\ w.c.method = "marlin" /\ w.c.marlin_add_to_gcode
        add_klipper ==
            w.c.enabled /\ w.c.method = "klipper" /\ w.c.klipper_add_to_gcode
        r == sync_start_gcode(w.gcode, calculator, "ready",
                              effective_method, add_marlin, add_klipper)
    IN  [w EXCEPT !.gcode = r.text,
                  !.synced = [method |-> effective_method,
                              marlin_add |-> add_marlin,
                              klipper_add |-> add_klipper,
                              host |-> "ready", wrote |-> r.wrote]]

\* _update_plugin_menu_dialog_state
update_plugin_menu_dialog_state(w) ==
    IF ~w.c.dialog THEN w
    ELSE LET pp_script_active ==
                 /\ w.c.enabled /\ w.c.method = "postprocessing"
                 /\ w.c.pp_script_checkbox_state
         IN  sync_gcode_based_on_state(ensure(w, pp_script_active))

\* str() of a bool, as _write_printer_settings_to_file stores it
BoolText(b) == IF b THEN "True" ELSE "False"

\* get_typed_value for a bool setting read as text: lower() == 'true'
get_typed_bool(text) == text \in {"True", "true", "TRUE"}

\* the settings dictionary of _save_current_settings as the file holds it
saved_settings(c) ==
    [exists |-> TRUE,
     compensation_enabled |-> BoolText(c.enabled),
     compensation_method |-> c.method,
     marlin_add_to_gcode |-> BoolText(c.marlin_add_to_gcode),
     klipper_add_to_gcode |-> BoolText(c.klipper_add_to_gcode),
     pp_script_checkbox_state |-> BoolText(c.pp_script_checkbox_state)]

\* _save_current_settings: the dialog state is updated, then the file written
save_current_settings(w) ==
    LET w1 == update_plugin_menu_dialog_state(w)
    IN  [w1 EXCEPT !.file = saved_settings(w1.c)]

\* _update_internal_state_from_printer_config up to its closing
\* _update_plugin_menu_dialog_state; the measurements read back are those the
\* calculator holds
update_internal_state_from_printer_config(w) ==
    LET c == IF ~w.file.exists
             THEN [NewController EXCEPT !.dialog = w.c.dialog]
             ELSE [enabled |-> get_typed_bool(w.file.compensation_enabled),
                   method |-> w.file.compensation_method,
                   marlin_add_to_gcode |->
                       get_typed_bool(w.file.marlin_add_to_gcode),
                   klipper_add_to_gcode |->
                       get_typed_bool(w.file.klipper_add_to_gcode),
                   pp_script_checkbox_state |->
                       get_typed_bool(w.file.pp_script_checkbox_state),
                   dialog |-> w.c.dialog]
    IN  [w EXCEPT !.c = c]

\* _show_plugin_menu_dialog up to the _update_plugin_menu_dialog_state call
\* both of its paths end with
show_plugin_menu_dialog(w) ==
    LET w1 == [w EXCEPT !.c.pp_script_checkbox_state =
                            is_post_processing_script_active(w)]
    IN  IF w1.c.dialog
        THEN w1
        ELSE update_internal_state_from_printer_config(
                 [w1 EXCEPT !.c.dialog = TRUE])

\* _handle_enable_compensation_toggle up to its _save_current_settings call
handle_enable_compensation_toggle(w, enable) ==
    [w EXCEPT !.c.enabled = enable]

\* the branches the Marlin and the Klipper handler share, up to the
\* _save_current_settings call: the method is switched on with its own flag,
\* or every method is switched off
handle_add_gcode_request(w, enable, method) ==
    IF ~w.c.enabled THEN w
    ELSE LET w1 == [w EXCEPT
                       !.c.method = IF enable THEN method ELSE "none",
                       !.c.marlin_add_to_gcode = enable /\ method = "marlin",
                       !.c.klipper_add_to_gcode = enable /\ method = "klipper"]
             w2 == ensure(w1, FALSE)
         IN  [w2 EXCEPT !.c.pp_script_checkbox_state = FALSE]

\* _handle_add_marlin_gcode_request up to its _save_current_settings call
handle_add_marlin_gcode_request(w, enable) ==
    handle_add_gcode_request(w, enable, "marlin")

\* _handle_add_klipper_gcode_request up to its _save_current_settings call
handle_add_klipper_gcode_request(w, enable) ==
    handle_add_gcode_request(w, enable, "klipper")

\* _handle_toggle_post_processing_script up to its _save_current_settings
\* call: both enabled branches set the fields and call
\* _ensure_pp_script_state(enable); the checkbox state is set before the call
\* when switching on and after it when switching off
handle_toggle_post_processing_script(w, enable) ==
    IF ~w.c.enabled THEN w
    ELSE LET w1 == [w EXCEPT
                       !.c.method = IF enable THEN "postprocessing" ELSE "none",
                       !.c.marlin_add_to_gcode = FALSE,
                       !.c.klipper_add_to_gcode = FALSE,
                       !.c.pp_script_checkbox_state = IF enable THEN TRUE ELSE @]
             w2 == ensure(w1, enable)
         IN  [w2 EXCEPT !.c.pp_script_checkbox_state = IF enable THEN @ ELSE FALSE]

\* the scripts of other authors a user has in the active list
OtherScripts == {"PauseAtHeight", "FilamentChange"}

MaxActiveScripts == 2

\* the active lists Cura can hold when the plugin starts
RECURSIVE ScriptListsOfLength(_)
ScriptListsOfLength(n) ==
    IF n = 0 THEN {<<>>}
    ELSE { Append(l, k) : l \in ScriptListsOfLength(n - 1),
                          k \in OtherScripts \cup {PostProcessingScriptName} }

ActiveScriptLists ==
    UNION { ScriptListsOfLength(n) : n \in 0..MaxActiveScripts }

\* a printer without settings file; Cura has its own post-processing list
InitCtl ==
    /\ controller = NewController
    /\ settings_file = NoSettingsFile
    /\ post_processing \in [scriptList : ActiveScriptLists, loaded : BOOLEAN]
    /\ handled = NoHandler
    /\ calculator = NewCalculator.obj
    /\ raised = "none"
    /\ last_cmd = NoCommand
    /\ start_gcode = <<UserLine>>
    /\ synced = NotSynced
    /\ script = NewScript
    /\ config = DefaultSettings
    /\ exec = NoExec
    /\ GeoUnused
    /\ CompUnused

World ==
    [c |-> controller, list |-> post_processing.scriptList,
     loaded |-> post_processing.loaded, gcode |-> start_gcode,
     synced |-> synced, file |-> settings_file, calls |-> <<>>]

\* the state a handler leaves
Left(name, w) ==
    /\ controller' = w.c
    /\ post_processing' = [post_processing EXCEPT !.scriptList = w.list]
    /\ start_gcode' = w.gcode
    /\ synced' = w.synced
    /\ settings_file' = w.file
    /\ handled' = [handler |-> name, calls |-> w.calls]
    /\ UNCHANGED <<calculator, raised, last_cmd, geoVars, compVars, execVars>>

\* a handler that ends with _save_current_settings
Handled(name, w) == Left(name, save_current_settings(w))

HandleEnableCompensationToggle ==
    \E enable \in BOOLEAN :
        Handled("enable", handle_enable_compensation_toggle(World, enable))

HandleAddMarlinGcodeRequest ==
    \E enable \in BOOLEAN :
        Handled("marlin", handle_add_marlin_gcode_request(World, enable))

HandleAddKlipperGcodeRequest ==
    \E enable \in BOOLEAN :
        Handled("klipper", handle_add_klipper_gcode_request(World, enable))

HandleTogglePostProcessingScript ==
    \E enable \in BOOLEAN :
        Handled("postprocessing",
                handle_toggle_post_processing_script(World, enable))

ShowPluginMenuDialog ==
    Left("show", update_plugin_menu_dialog_state(show_plugin_menu_dialog(World)))

\* _on_plugin_menu_dialog_finished
OnPluginMenuDialogFinished ==
    /\ controller.dialog
    /\ Left("finished", [World EXCEPT !.c.dialog = FALSE])

NextCtl ==
    \/ HandleEnableCompensationToggle
    \/ HandleAddMarlinGcodeRequest
    \/ HandleAddKlipperGcodeRequest
    \/ HandleTogglePostProcessingScript
    \/ ShowPluginMenuDialog
    \/ OnPluginMenuDialogFinished

SpecCtl == InitCtl /\ [][NextCtl]_vars

---------------------------------------------------------------------------
(* Claims *)

FGt0(x) == x.k \in {"fin", "big", "inf"} /\ x.n > 0

Planes == {"xy", "xz", "yz"}

Meas(c, p) ==
    CASE p = "xy" -> <<c.xy_ac, c.xy_bd, c.xy_ad>>
      [] p = "xz" -> <<c.xz_ac, c.xz_bd, c.xz_ad>>
      [] p = "yz" -> <<c.yz_ac, c.yz_bd, c.yz_ad>>

Factor(c, p) ==
    CASE p = "xy" -> get_skew_factors(c)[1]
      [] p = "xz" -> get_skew_factors(c)[2]
      [] p = "yz" -> get_skew_factors(c)[3]

\* (ac^2 - bd^2) / (4 * ad^2) in float arithmetic
QuarterFormula(m) ==
    FDiv(FSub(FMul(m[1], m[1]), FMul(m[2], m[2])), FMul(Four, FMul(m[3], m[3])))

\* C1: after any sequence of set_measurements calls, every plane whose stored
\* measurements are floats with ad > 0 has the stored factor
\* (ac^2 - bd^2) / (4 * ad^2) of its own stored measurements.
C1_FactorsOfStoredMeasurements ==
    \A p \in Planes :
        LET m == Meas(calculator, p)
        IN  (IsFloat(m[1]) /\ IsFloat(m[2]) /\ IsFloat(m[3]) /\ FGt0(m[3]))
                => Factor(calculator, p) = QuarterFormula(m)

\* C2: every plane whose ad is <= 0 has the factor 0.0 after
\* calculate_skew_factors, and no exception escaped it.
C2_NonPositiveSideGivesZero ==
    \A p \in Planes :
        FLe0(Meas(calculator, p)[3])
            => (Factor(calculator, p) = Zero /\ raised = "none")

\* C3: a plane with a measurement that is no finite number (text, None, NaN,
\* an infinity) has the factor 0.0, and no exception escaped.
C3_NotFiniteGivesZero ==
    \A p \in Planes :
        (\E i \in 1..3 : Meas(calculator, p)[i].k \in {"text", "none", "nan", "inf"})
            => (Factor(calculator, p) = Zero /\ raised = "none")

GeoDone == g_geo.log # "pending"
QuarterDone == g_quarter.exc # "pending"

\* C4: the geometric factor is exactly 0.0 whenever one of ac, bd, ad is <= 0.
C4_NonPositiveGivesZero ==
    (GeoDone /\ \E i \in 1..3 : FLe0(g_in[i]))
        => (g_geo.val = Zero /\ g_geo.log = "w")

C4_Witness ==
    /\ GeoDone
    /\ g_in = <<Fin(-100, 1), Fin(130, 1), Fin(100, 1)>>
    /\ g_geo.val = Zero

\* 2*ac^2 + 2*bd^2 - 4*ad^2
RadicandOf(m) ==
    FSub(FAdd(FMul(Two, FMul(m[1], m[1])), FMul(Two, FMul(m[2], m[2]))),
         FMul(Four, FMul(m[3], m[3])))

AllPositive(m) == FGt0(m[1]) /\ FGt0(m[2]) /\ FGt0(m[3])

\* C5: for positive ac, bd, ad with a negative or zero radicand the geometric
\* factor is exactly 0.0, returned by the guards (a warning), not by the except
\* clauses: no square root of a negative number, no division by zero.
C5_BadRadicandGivesZero ==
    (GeoDone /\ AllPositive(g_in)
        /\ (FLt0(RadicandOf(g_in)) \/ FIsZero(RadicandOf(g_in))))
        => (g_geo.val = Zero /\ g_geo.log = "w")

C5_Witness ==
    /\ GeoDone
    /\ AllPositive(g_in)
    /\ FLt0(RadicandOf(g_in))
    /\ g_geo.val = Zero

AllFinitePositive(m) == \A i \in 1..3 : m[i].k = "fin" /\ m[i].n > 0

\* the square of arg = (ac^2 - ab^2 - ad^2) / (2*ab*ad), ab^2 = radicand / 4:
\* ((ac^2 - bd^2) / 2)^2 / (radicand * ad^2); and the sign of arg
ArgSquare(m) ==
    LET half == FDiv(FSub(FMul(m[1], m[1]), FMul(m[2], m[2])), Two)
    IN  FDiv(FMul(half, half), FMul(RadicandOf(m), FMul(m[3], m[3])))

ArgSign(m) == Sgn(FSub(FMul(m[1], m[1]), FMul(m[2], m[2])).n)

\* C6: for positive measurements with a positive radicand, an arg outside
\* [-1, 1] gives exactly 0.0 (rejected with a warning, not clamped), and an arg
\* inside [-1, 1] gives tan(pi/2 - acos(arg)) of that arg.
C6_OutOfRangeRejected ==
    (GeoDone /\ AllFinitePositive(g_in) /\ FGt0(RadicandOf(g_in)))
        => LET a2 == ArgSquare(g_in)
           IN  IF a2.n > a2.d
               THEN g_geo.val = Zero /\ g_geo.log = "w"
               ELSE /\ g_geo.log = "none"
                    /\ IF a2.n = 0
                       THEN g_geo.val.k = "fin" /\ g_geo.val.n = 0
                       ELSE /\ g_geo.val.k = "cot"
                            /\ g_geo.val.n = ArgSign(g_in) * a2.n
                            /\ g_geo.val.d = a2.d

C6_Witness ==
    /\ GeoDone
    /\ AllFinitePositive(g_in)
    /\ FGt0(RadicandOf(g_in))
    /\ ArgSquare(g_in).n > ArgSquare(g_in).d
    /\ g_geo.val = Zero

\* 0.0 up to the residue of a rounding
NoSkew(x) == x.k = "fin" /\ x.n = 0

\* C7: for positive ac = bd and ad > 0 both the quarter formula and the
\* geometric formula yield the factor 0.0 (no skew; a rounding residue counts
\* as none), and the quarter formula raises nothing.
C7_EqualDiagonalsGiveZero ==
    (GeoDone /\ QuarterDone /\ g_in[1] = g_in[2] /\ FGt0(g_in[1]) /\ FGt0(g_in[3]))
        => (NoSkew(g_geo.val) /\ NoSkew(g_quarter.val) /\ g_quarter.exc = "none")

XYIs150_130_100 ==
    Meas(calculator, "xy") = <<Fin(150, 1), Fin(130, 1), Fin(100, 1)>>

\* C8 as stated: for XY measurements 150, 130, 100 the Marlin I factor is 0.014.
C8_FactorIs0014 == XYIs150_130_100 => calculator.marlin_I = Fin(14, 1000)

\* C8 as amended: for XY measurements 150, 130, 100 the Marlin I factor is
\* (150^2 - 130^2) / (4 * 100^2) = 5600 / 40000 = 0.14.
C8_FactorIs014 == XYIs150_130_100 => calculator.marlin_I = Fin(14, 100)

C8_Witness == XYIs150_130_100 /\ calculator.marlin_I = Fin(5600, 40000)

\* a move line of a layer with index >= 2 has just been processed
MoveRewritten == c_pc = "running" /\ line_layer >= 2 /\ IsMove(c_line)

TokenOr0(line, key) == IF line[key] # PyNone THEN line[key] ELSE Zero

\* C9 as stated: in layers with index >= 2 a move line's corrected coordinates
\* are x_out = round(x_input - y_input*factor_xy - z*factor_xz, 3) and
\* y_out = round(y_input - z*factor_yz, 3).
C9_RoundedOnce ==
    MoveRewritten
        => /\ x_out = Round3(FSub(FSub(TokenOr0(c_line, "X"),
                                       FMul(TokenOr0(c_line, "Y"), c_factors.xy)),
                                  FMul(z_input, c_factors.xz)))
           /\ y_out = Round3(FSub(TokenOr0(c_line, "Y"), FMul(z_input, c_factors.yz)))

\* C9 as amended: x_out = round(round(x_input - y_input*factor_xy, 3)
\* - z*factor_xz, 3), rounded after each of the two shears, and
\* y_out = round(y_input - z*factor_yz, 3); x_input and y_input are the line's
\* own X and Y tokens (0 when absent), z the tracked Z.
C9_RoundedAfterEachShear ==
    MoveRewritten
        => /\ x_out = Round3(FSub(Round3(FSub(TokenOr0(c_line, "X"),
                                              FMul(TokenOr0(c_line, "Y"), c_factors.xy))),
                                  FMul(z_input, c_factors.xz)))
           /\ y_out = Round3(FSub(TokenOr0(c_line, "Y"), FMul(z_input, c_factors.yz)))

C9_Witness ==
    /\ MoveRewritten
    /\ c_line.X = Fin(100, 1) /\ c_line.Y = Fin(1026, 100)
    /\ z_input = Fin(26, 100)
    /\ c_factors = [xy |-> Fin(1, 100), xz |-> Fin(1, 100), yz |-> Fin(1, 100)]
    /\ x_out = Fin(99894, 1000)
    /\ y_out = Fin(10257, 1000)
    /\ c_out.X = x_out /\ c_out.Y = y_out

\* C10: the tracked z is 0 when an invocation starts, becomes the Z token of a
\* G0/G1 line that carries one, and is otherwise left as it is by every line
\* and every layer change, in the skipped layers 0 and 1 as in the others.
C10_ZTracked ==
    [][ /\ (c_pc # "running" /\ c_pc' = "running") => z_input' = Zero
        /\ (c_pc = "running" /\ c_pc' = "running" /\ line_layer' = layer_index)
              => z_input' = IF IsMove(c_line') /\ c_line'.Z # PyNone
                            THEN c_line'.Z ELSE z_input
        /\ (c_pc = "running" /\ layer_index' # layer_index) => z_input' = z_input
        /\ c_pc' # "running" => z_input' = z_input ]_vars

\* a Z10 seen in a skipped layer is the z of a later line without a Z token
C10_Witness ==
    /\ c_pc = "running" /\ line_layer >= 2
    /\ IsMove(c_line) /\ c_line.Z = PyNone /\ c_line.Y # PyNone
    /\ z_layer \in {0, 1}
    /\ z_input = Fin(10, 1)
    /\ c_factors.yz = Fin(1, 100)
    /\ y_out = Fin(10160, 1000)

\* a line has just been processed in layer line_layer of the running pass
LineProcessed == c_pc = "running" /\ line_layer >= 0

\* C11: the lines of layers 0 and 1 are left as they are, for any factors: the
\* line after its iteration is the line before it, text and all.
C11_FirstTwoLayersUntouched ==
    (LineProcessed /\ line_layer < 2) => c_out = c_line

C11_Witness ==
    /\ LineProcessed /\ line_layer = 1
    /\ IsMove(c_line) /\ c_line.X # PyNone /\ c_line.Y # PyNone
    /\ x_out # c_line.X /\ y_out # c_line.Y
    /\ c_out = c_line

\* C12: x_input and y_input start from 0 on every move line. A line with X and
\* no Y gets x_out from X and the tracked z alone (rounded as the code rounds),
\* whatever Y earlier lines had; a line with Y and no X gets
\* y_out = round(Y - z*factor_yz, 3); an axis the line does not have is not
\* written into it.
C12_InputsResetPerLine ==
    (LineProcessed /\ IsMove(c_line))
        => /\ (c_line.X # PyNone /\ c_line.Y = PyNone)
                => x_out = Round3(FSub(Round3(c_line.X), FMul(z_input, c_factors.xz)))
           /\ (c_line.Y # PyNone /\ c_line.X = PyNone)
                => y_out = Round3(FSub(c_line.Y, FMul(z_input, c_factors.yz)))
           /\ c_line.X = PyNone => (c_out.X = PyNone /\ c_out.Xf = "none")
           /\ c_line.Y = PyNone => (c_out.Y = PyNone /\ c_out.Yf = "none")

\* an X-only line after a line with Y, with an XY factor: no XY shear applied
C12_Witness ==
    /\ LineProcessed /\ line_layer >= 2 /\ IsMove(c_line)
    /\ c_line.X = Fin(100, 1) /\ c_line.Y = PyNone
    /\ seen_y = Fin(1026, 100)
    /\ c_factors.xy = Fin(1, 100) /\ c_factors.xz = Fin(1, 100)
    /\ z_input = Fin(10, 1)
    /\ x_out = Fin(999, 10)
    /\ c_out.X = x_out /\ c_out.Y = PyNone

\* C13: the position is cumulative for X, Y and Z alike: a move line with X
\* and no Y is corrected with the Y of the most recent earlier move line that
\* had one, x_out = round(round(X - Y_last*factor_xy, 3) - z*factor_xz, 3).
C13_OmittedAxisKeepsLastValue ==
    (LineProcessed /\ IsMove(c_line) /\ c_line.X # PyNone /\ c_line.Y = PyNone
        /\ seen_y # PyNone)
        => x_out = Round3(FSub(Round3(FSub(c_line.X, FMul(seen_y, c_factors.xy))),
                               FMul(z_input, c_factors.xz)))

NoFactors == c_factors = [xy |-> Zero, xz |-> Zero, yz |-> Zero]

\* a move line has been processed in a layer that is rewritten
MoveInRewrittenLayer == LineProcessed /\ line_layer >= 2 /\ IsMove(c_line)

\* C14: with all three factors 0.0, the X and Y of the output line of every
\* move line beyond layer 1 are the input X and Y rounded to 3 decimals, for
\* any tracked z.
C14_ZeroFactorsRoundOnly ==
    (MoveInRewrittenLayer /\ NoFactors)
        => /\ c_line.X # PyNone => c_out.X = Round3(c_line.X)
           /\ c_line.Y # PyNone => c_out.Y = Round3(c_line.Y)

\* C15: only the X and Y tokens of G0/G1 lines change: any other line is left
\* as it is, and a move line keeps its command, its Z token, its other
\* parameters and its trailing comment.
C15_OnlyXYTokensChange ==
    LineProcessed
        => /\ ~IsMove(c_line) => c_out = c_line
           /\ c_out.cmd = c_line.cmd
           /\ c_out.Z = c_line.Z
           /\ c_out.rest = c_line.rest

\* C16: in layers with index >= 2 the X (Y) token of a move line that has one
\* is replaced by x_out (y_out), written with exactly 3 decimal digits,
\* whatever the text of the original token.
C16_TokensReplacedWithThreeDecimals ==
    MoveInRewrittenLayer
        => /\ c_line.X # PyNone
                => (c_out.X = x_out /\ c_out.Xf = "float" /\ decimals_of(c_out.X) = 3)
           /\ c_line.Y # PyNone
                => (c_out.Y = y_out /\ c_out.Yf = "float" /\ decimals_of(c_out.Y) = 3)

\* the parts of the Marlin command line for the factors <<I, J, K>>
MarlinLineOf(f) ==
    [prefix |-> "M852",
     args |-> << [key |-> "I", vals |-> <<Format(f[1], 8)>>],
                 [key |-> "J", vals |-> <<Format(f[2], 8)>>],
                 [key |-> "K", vals |-> <<Format(f[3], 8)>>] >>,
     comment |-> "; PrintSkewCompensation"]

Coercible(v) == v.k \notin {"none", "text"}

\* the parts of the Klipper command line for the stored measurements of c
KlipperLineOf(c) ==
    [prefix |-> "SET_SKEW",
     args |-> << [key |-> "XY", vals |-> << Format(c.xy_ac, 3), Format(c.xy_bd, 3),
                                            Format(c.xy_ad, 3) >>],
                 [key |-> "XZ", vals |-> << Format(c.xz_ac, 3), Format(c.xz_bd, 3),
                                            Format(c.xz_ad, 3) >>],
                 [key |-> "YZ", vals |-> << Format(c.yz_ac, 3), Format(c.yz_bd, 3),
                                            Format(c.yz_ad, 3) >>] >>,
     comment |-> "; PrintSkewCompensation"]

\* C18: a call of get_klipper_command raises nothing; it returns
\* 'SET_SKEW XY=<ac,bd,ad> XZ=<ac,bd,ad> YZ=<ac,bd,ad> ; PrintSkewCompensation'
\* with the nine stored measurements at 3 decimals, and when a measurement
\* cannot be coerced to a number the error-annotated SET_SKEW string.
C18_KlipperCommandOfMeasurements ==
    [][ GetKlipperCommand
        => /\ raised' = "none"
           /\ last_cmd'.kind = "klipper"
           /\ calculator' = calculator
           /\ IF \A i \in 1..9 : Coercible(Measurements(calculator)[i])
              THEN last_cmd'.text = KlipperLineOf(calculator)
              ELSE /\ last_cmd'.text.prefix = "SET_SKEW"
                   /\ last_cmd'.text.args = <<>>
                   /\ last_cmd'.text.comment =
                          "; Error: Invalid measurements (PrintSkewCompensation)" ]_vars

\* the command read for XY = 150, 130, 100 and XZ ad = 66.666..., whose
\* factors are other numbers
C18_Witness ==
    /\ last_cmd.kind = "klipper"
    /\ calculator.xy_ac = Fin(150, 1)
    /\ calculator.marlin_I = Fin(14, 100)
    /\ last_cmd.text.args[1].vals[1] =
           [k |-> "num", neg |-> FALSE, whole |-> 150, frac |-> 0, places |-> 3]
    /\ last_cmd.text.args[2].vals[3] =
           [k |-> "num", neg |-> FALSE, whole |-> 66, frac |-> 667, places |-> 3]

\* a line the plugin owns: it starts with M852 or SET_SKEW and contains
\* '; PrintSkewCompensation'
PluginOwned(line) ==
    /\ line.prefix \in {"M852", "SET_SKEW"}
    /\ line.comment = "; PrintSkewCompensation"

OwnedLines == SelectSeq(start_gcode, PluginOwned)

\* the string get_klipper_command returns for the calculator c
KlipperStringOf(c) ==
    IF \A i \in 1..9 : Coercible(Measurements(c)[i]) THEN KlipperLineOf(c)
    ELSE [prefix |-> "SET_SKEW", args |-> <<>>,
          comment |-> "; Error: Invalid measurements (PrintSkewCompensation)"]

\* C19: after a sync_start_gcode call that ran to its end, the plugin-owned
\* skew lines of the start G-code are exactly one line equal to the current
\* Marlin command (method 'marlin' and marlin_add), exactly one line equal to
\* the current Klipper command (method 'klipper' and klipper_add), or none.
C19_ExactlyTheRequiredCommand ==
    synced.method # "unset"
    => OwnedLines =
         IF synced.method = "marlin" /\ synced.marlin_add
         THEN << MarlinLineOf(get_skew_factors(calculator)) >>
         ELSE IF synced.method = "klipper" /\ synced.klipper_add
         THEN << KlipperStringOf(calculator) >>
         ELSE <<>>

\* C20: every string get_marlin_command or get_klipper_command returns, the
\* Klipper error-annotated string included, starts with its command prefix
\* and contains the tag '; PrintSkewCompensation', so that sync_start_gcode
\* takes the line for one of the plugin's.
C20_EveryCommandCarriesTheTag ==
    last_cmd.kind # "none"
    => /\ last_cmd.text.prefix = (IF last_cmd.kind = "marlin" THEN "M852" ELSE "SET_SKEW")
       /\ last_cmd.text.comment = "; PrintSkewCompensation"
       /\ is_marlin_skew(last_cmd.text) \/ is_klipper_skew(last_cmd.text)

\* C21: no exception leaves calculate_skew_factors / set_measurements,
\* whatever the measurements, values of extreme magnitude included: a
\* failure of the arithmetic is absorbed and gives a factor of 0.0.
C21_NoExceptionEscapes ==
    /\ raised = "none"
    /\ \A p \in Planes :
           (\E i \in 1..3 : Meas(calculator, p)[i].k = "big")
               => Factor(calculator, p) = Zero

\* the layers of the input are all there, in order
InputLayersKept(d, n) ==
    \A i \in 1..n : d[i].kind = "layer" /\ d[i].id = i - 1

\* the compensated document: every layer of the input processed, the
\* settings summary after them
FullyCompensated(d) ==
    /\ Len(d) >= 2
    /\ InputLayersKept(d, Len(d) - 1)
    /\ \A i \in 1..(Len(d) - 1) : d[i].comp
    /\ d[Len(d)].kind = "summary"

\* no layer processed, no layer added
NothingCompensated(d) ==
    /\ InputLayersKept(d, Len(d))
    /\ \A i \in 1..Len(d) : ~d[i].comp

Reported == exec.msg \in {"WARNING", "ERROR"}

ExecuteReturned == exec'.called /\ (exec' # exec \/ script' # script)

\* the measurements t of a plane are three numbers that give a factor other
\* than zero
GivesSkew(t) ==
    /\ \A i \in 1..3 : t[i].k = "fin"
    /\ \A r \in Rounding : ~FIsZero(calculate_skew_factor(t[1], t[2], t[3], r).val)

\* C23: execute decides from the configuration as it is at the call: with
\* compensation enabled, the script setting on, a document not yet
\* post-processed and measurements giving a non-zero factor it rewrites the
\* coordinates, whatever an earlier call on the same instance found.
C23_ExecuteDecidesAfresh ==
    [][ ( /\ ExecuteReturned
          /\ config.compensation_enabled
          /\ config.enable_print_skew_comp
          /\ ~exec'.data[1].post
          /\ GivesSkew(config.xy) \/ GivesSkew(config.xz) \/ GivesSkew(config.yz) )
        => FullyCompensated(exec'.data) ]_vars

\* execute applied the compensation: cura_compensation processed a layer
Applied == \E i \in 1..Len(exec.data) : exec.data[i].comp

\* the returned document is the input with one comment line more on layer 0,
\* every layer in its place, and the settings summary as one more layer
OneNoteOneLayerMore ==
    /\ Len(exec.data) = Len(exec.input) + 1
    /\ exec.data[Len(exec.data)].kind = "summary"
    /\ \A i \in 1..Len(exec.input) :
           /\ exec.data[i].kind = "layer"
           /\ exec.data[i].id = exec.input[i].id
           /\ exec.data[i].post = exec.input[i].post
           /\ Len(exec.data[i].notes) = Len(exec.input[i].notes) + (IF i = 1 THEN 1 ELSE 0)

ExpectedFactors(cfg, t) ==
    IF ~cfg.compensation_enabled THEN {Zero}
    ELSE IF \E i \in 1..3 : t[i].k \in {"none", "text"} THEN {Zero}
    ELSE { calculate_skew_factor(t[1], t[2], t[3], r).val : r \in Rounding }

\* C25: when execute calculates the factors from the configuration, a plane
\* with a missing or non-numeric measurement gets 0.0 and, with compensation
\* enabled, every other plane gets the geometric factor of its own three
\* measurements; with compensation_enabled false all three factors are 0.0.
C25_PlanesIndependent ==
    [][ ( /\ ExecuteReturned
          /\ script.plugin_enabled # "False"
          /\ config.enable_print_skew_comp
          /\ ~exec'.input[1].post )
        => /\ script'.factors.xy \in ExpectedFactors(config, config.xy)
           /\ script'.factors.xz \in ExpectedFactors(config, config.xz)
           /\ script'.factors.yz \in ExpectedFactors(config, config.yz) ]_vars

\* XY has a measurement missing and XZ one that is no number, YZ is skewed:
\* the compensation was applied with the YZ factor alone
C25_Witness ==
    /\ exec.called
    /\ Applied
    /\ config.compensation_enabled
    /\ config.xy[2] = PyNone
    /\ config.xz[3] = PyText
    /\ script.factors.xy = Zero
    /\ script.factors.xz = Zero
    /\ ~FIsZero(script.factors.yz)
    /\ script.factors.yz \in ExpectedFactors(config, config.yz)

\* the command the completed sync call had to ensure (<<>>: none)
RequiredCommand(c, args) ==
    IF args.method = "marlin" /\ args.marlin_add
    THEN MarlinLineOf(get_skew_factors(c))
    ELSE IF args.method = "klipper" /\ args.klipper_add
    THEN KlipperStringOf(c)
    ELSE <<>>

\* the text after a sync: the lines of before without the plugin-owned lines
\* that are not the required command, then the required command if the text
\* did not hold it
TextAfterSync(text, req) ==
    LET Stays(l) == ~PluginOwned(l) \/ l = req
        kept == SelectSeq(text, Stays)
    IN  IF req # <<>> /\ \A i \in 1..Len(text) : text[i] # req
        THEN Append(kept, req)
        ELSE kept

\* C26: sync_start_gcode removes, alters and reorders no line that is not
\* plugin-owned; a correct command already in the text keeps its place, and a
\* command that has to be added is appended after all lines.
C26_OtherLinesUntouched ==
    [][ (synced'.method # "unset" /\ calculator' = calculator)
        => start_gcode' = TextAfterSync(start_gcode, RequiredCommand(calculator, synced')) ]_vars

\* the user's own M852 line without the tag and the user's G28 are where
\* they were, and the Marlin command stands after them
C26_Witness ==
    /\ synced.method = "marlin" /\ synced.marlin_add
    /\ Len(start_gcode) = 3
    /\ start_gcode[1].prefix = "M852" /\ start_gcode[1].comment = ""
    /\ start_gcode[2].prefix = "G28"
    /\ start_gcode[3] = MarlinLineOf(get_skew_factors(calculator))

\* the call just completed had the arguments of the call before it, on the
\* same calculator state
SameCallAgain ==
    /\ synced.method # "unset"
    /\ synced'.method = synced.method
    /\ synced'.marlin_add = synced.marlin_add
    /\ synced'.klipper_add = synced.klipper_add
    /\ calculator' = calculator

\* C27: a sync_start_gcode call repeated at once with the same calculator
\* state and the same method, marlin_add and klipper_add leaves the start
\* G-code as it is and calls setProperty not at all; a call that cannot get
\* the global stack, the settings container or the start G-code writes
\* nothing.
C27_SyncIdempotent ==
    [][ /\ SameCallAgain => (start_gcode' = start_gcode /\ ~synced'.wrote)
        /\ synced'.host \in {"no_stack", "no_container", "no_gcode"}
               => (start_gcode' = start_gcode /\ ~synced'.wrote) ]_vars

\* the call that wrote the Klipper command after the user's line has been
\* repeated and wrote nothing
C27_Witness ==
    /\ synced.method = "klipper" /\ synced.klipper_add
    /\ ~synced.wrote
    /\ Len(start_gcode) = 2
    /\ start_gcode[1].prefix = "G28"
    /\ start_gcode[2] = KlipperStringOf(calculator)
    /\ calculator.marlin_I = Fin(14, 100)

AtMostOneMethod ==
    Cardinality({ m \in {"marlin", "klipper", "postprocessing"} :
        \/ m = "marlin" /\ controller.marlin_add_to_gcode
        \/ m = "klipper" /\ controller.klipper_add_to_gcode
        \/ m = "postprocessing" /\ controller.pp_script_checkbox_state }) <= 1

MethodNamesTheFlag ==
    /\ controller.marlin_add_to_gcode => controller.method = "marlin"
    /\ controller.klipper_add_to_gcode => controller.method = "klipper"
    /\ controller.pp_script_checkbox_state => controller.method = "postprocessing"

\* C28: in every state the handlers reach from the default settings at most
\* one of marlin_add_to_gcode, klipper_add_to_gcode and
\* pp_script_checkbox_state is true and self.method names the one that is.
C28_MethodsMutuallyExclusive == AtMostOneMethod /\ MethodNamesTheFlag

\* the part of C28 about a disabled plugin: a method handler run while
\* compensation is disabled leaves method and the three flags as they were
C28_DisabledHandlersChangeNothing ==
    [][ (/\ handled'.handler \in {"marlin", "klipper", "postprocessing"}
         /\ ~controller.enabled)
        => /\ controller'.method = controller.method
           /\ controller'.marlin_add_to_gcode = controller.marlin_add_to_gcode
           /\ controller'.klipper_add_to_gcode = controller.klipper_add_to_gcode
           /\ controller'.pp_script_checkbox_state
                  = controller.pp_script_checkbox_state ]_vars

IsOurs(k) == k = PostProcessingScriptName
IsOther(k) == k # PostProcessingScriptName

ActiveIn(list) == \E i \in 1..Len(list) : IsOurs(list[i])

\* what one _ensure_pp_script_state call has to leave
EnsuredAsClaimed(call) ==
    /\ (call.target /\ call.loaded /\ ~ActiveIn(call.before))
           => /\ Len(call.after) = Len(call.before) + 1
              /\ IsOurs(call.after[1])
              /\ SelectSeq(call.after, IsOther) = call.before
    /\ (~call.target /\ ActiveIn(call.before))
           => /\ Len(call.after) = Len(call.before) - 1
              /\ SelectSeq(call.after, IsOther) = SelectSeq(call.before, IsOther)
    /\ (call.target = ActiveIn(call.before))
           => call.after = call.before

GeoAccepted ==
    /\ GeoDone /\ g_geo.log = "none"
    /\ \A i \in 1..3 : g_in[i].k = "fin" /\ g_in[i].n > 0

\* the sign of a factor: of its value, and of the residue where the value is 0
SignOf(x) == IF x.n # 0 THEN Sgn(x.n) ELSE Sgn(x.e)

\* the sign of ac - bd
DirectionOf(in) == Sgn(in[1].n * in[2].d - in[2].n * in[1].d)

\* C30: for positive ac, bd, ad the geometric formula accepts, the geometric
\* and the quarter-formula factor both have the sign of ac - bd (zero iff
\* ac = bd), and each formula applied to bd, ac, ad gives the negated factor.
C30_SameSignSwapNegates ==
    (GeoAccepted /\ QuarterDone)
        => /\ SignOf(g_geo.val) = DirectionOf(g_in)
           /\ SignOf(g_quarter.val) = DirectionOf(g_in)
           /\ \A r \in Rounding :
                  calculate_skew_factor(g_in[2], g_in[1], g_in[3], r).val
                      = FNeg(g_geo.val)
           /\ quarter_block(g_in[2], g_in[1], g_in[3]).val = FNeg(g_quarter.val)

\* C30 with the residue of the rounded root set aside: the values the two
\* formulas round have the sign of ac - bd and change sign with the swap
C30_AgreeUpToRounding ==
    (GeoAccepted /\ QuarterDone)
        => /\ Sgn(g_geo.val.n) = DirectionOf(g_in)
           /\ Sgn(g_quarter.val.n) = DirectionOf(g_in)
           /\ \A r \in Rounding :
                  LET swapped ==
                          calculate_skew_factor(g_in[2], g_in[1], g_in[3], r)
                  IN  /\ swapped.log = "none"
                      /\ [swapped.val EXCEPT !.e = 0]
                             = FNeg([g_geo.val EXCEPT !.e = 0])
           /\ quarter_block(g_in[2], g_in[1], g_in[3]).val = FNeg(g_quarter.val)

====
